---------------------------- MODULE Spec2Model ----------------------------
(***************************************************************************)
(* The stack virtual machine and time-travel debugger of opdlang           *)
(* (src/vm.go, lines 1-809), with the REPL operations that drive it        *)
(* (src/repl.go, lines 102-207).                                           *)
(*                                                                         *)
(* The program counter is 0-based as in the Go code; bytecode, stack,      *)
(* locals and strings are TLA+ sequences, so Go's s[i] is s[i+1] here.     *)
(* The fields Memory and ReturnStack of VMState are never written by any   *)
(* instruction and stay empty; they are left out of the state record.      *)
(* Go's int is 64 bits wide; the programs explored keep every value far    *)
(* below that width, so integers are not wrapped.                          *)
(***************************************************************************)
EXTENDS Integers, Sequences, FiniteSets, TLC

(***************************************************************************)
(* Bounds of the exploration.                                              *)
(***************************************************************************)
LoopBound == 2
MaxCmds == 3
MaxExec == 2

(***************************************************************************)
(* Opcodes (type Instr) and debugger commands (type DebuggerCmd).          *)
(***************************************************************************)
InstrPush == 0
InstrPushStr == 1
InstrPop == 2
InstrAdd == 3
InstrSub == 4
InstrMul == 5
InstrDiv == 6
InstrMod == 7
InstrEq == 8
InstrNeq == 9
InstrLt == 10
InstrGt == 11
InstrLte == 12
InstrGte == 13
InstrLoad == 14
InstrStore == 15
InstrJmp == 16
InstrJmpIfZero == 17
InstrCall == 18
InstrRet == 19
InstrHalt == 20

DebuggerCmdContinue == 0
DebuggerCmdStepNext == 1
DebuggerCmdStepBack == 2
DebuggerCmdPause == 3

DebuggerCmds ==
    {DebuggerCmdContinue, DebuggerCmdStepNext, DebuggerCmdStepBack, DebuggerCmdPause}

(***************************************************************************)
(* Values: IntValue, StringValue{Index}, and the nil interface value that  *)
(* executeStore appends when it grows the locals.                          *)
(***************************************************************************)
IntValue(n) == [t |-> "int", v |-> n]
StringValue(i) == [t |-> "str", v |-> i]
NilValue == [t |-> "nil", v |-> 0]

(***************************************************************************)
(* NewVmState: empty stack, locals, call stack and strings; SourceLine 1.  *)
(***************************************************************************)
NewVmState ==
    [PC |-> 0, Stack |-> <<>>, Locals |-> <<>>, CallStack |-> <<>>,
     Strings |-> <<>>, SourceLine |-> 1]

(* VMState.Clone is a deep copy; TLA+ values are immutable. *)
Clone(st) == st

(***************************************************************************)
(* Sequence helpers standing for Go slice expressions.                     *)
(***************************************************************************)
Top(s) == s[Len(s)]
Second(s) == s[Len(s) - 1]
DropLast(s, n) == SubSeq(s, 1, Len(s) - n)
ByteAt(code, pc) == code[pc + 1]
MapGet(m, k) == IF k \in DOMAIN m THEN m[k] ELSE 0

(***************************************************************************)
(* Go's integer division truncates toward zero and % takes the sign of the *)
(* dividend; both are only evaluated with a non-zero divisor.              *)
(***************************************************************************)
Abs(x) == IF x < 0 THEN -x ELSE x
GoDiv(x, y) ==
    IF (x < 0) = (y < 0) THEN Abs(x) \div Abs(y) ELSE -(Abs(x) \div Abs(y))
GoMod(x, y) == x - y * GoDiv(x, y)

(***************************************************************************)
(* The outcome of one instruction: the state it leaves, whether it         *)
(* returned nil ("ok"), an error ("err") or panicked ("panic", with the Go *)
(* runtime's reason in why), whether it cleared vm.running, and the line   *)
(* a host function printed.                                                *)
(***************************************************************************)
Ok(st) == [st |-> st, res |-> "ok", why |-> "", halt |-> FALSE, out |-> <<>>]
Err(st, why) == [st |-> st, res |-> "err", why |-> why, halt |-> FALSE, out |-> <<>>]
Panic(st, why) == [st |-> st, res |-> "panic", why |-> why, halt |-> FALSE, out |-> <<>>]

Push(st, v) == [st EXCEPT !.Stack = Append(@, v)]
Pop2(st) == [st EXCEPT !.Stack = DropLast(@, 2)]
Bool(b) == IntValue(IF b THEN 1 ELSE 0)
BothInt(a, b) == a.t = "int" /\ b.t = "int"
BothStr(a, b) == a.t = "str" /\ b.t = "str"
StrOk(st, v) == v.v >= 0 /\ v.v < Len(st.Strings)
StrOf(st, v) == st.Strings[v.v + 1]

executePush(st, code) ==
    IF st.PC >= Len(code) THEN Err(st, "program counter out of bounds")
    ELSE Ok([Push(st, IntValue(ByteAt(code, st.PC))) EXCEPT !.PC = @ + 1])

(* POP growing the locals as STORE does. *)
executePop_growsLocals(st, code) ==
    IF Len(st.Stack) = 0 THEN Err(st, "stack underflow")
    ELSE IF st.PC >= Len(code) THEN Err(st, "program counter out of bounds")
    ELSE LET varIdx == ByteAt(code, st.PC)
             grown == IF varIdx >= Len(st.Locals)
                      THEN [st EXCEPT !.Locals = Append(@, NilValue)]
                      ELSE st
         IN  IF varIdx >= Len(grown.Locals) THEN Err(st, "variable index out of bounds")
             ELSE Ok([grown EXCEPT !.Locals[varIdx + 1] = Top(st.Stack),
                                   !.Stack = DropLast(@, 1),
                                   !.PC = @ + 1])

executePop(st, code) ==
    IF Len(st.Stack) = 0 THEN Err(st, "stack underflow")
    ELSE IF st.PC >= Len(code) THEN Err(st, "program counter out of bounds")
    ELSE LET varIdx == ByteAt(code, st.PC) IN
         IF varIdx >= Len(st.Locals) THEN Err(st, "variable index out of bounds")
         ELSE Ok([st EXCEPT !.Locals[varIdx + 1] = Top(st.Stack),
                            !.Stack = DropLast(@, 1),
                            !.PC = @ + 1])

(* RegisterString putting the new string in front of the table. *)
RegisterString_atFront(st, s) == [st EXCEPT !.Strings = << s >> \o @]

RegisterString(st, s) == [st EXCEPT !.Strings = Append(@, s)]

executeAdd(st) ==
    IF Len(st.Stack) < 2 THEN Err(st, "stack underflow")
    ELSE LET b == Top(st.Stack)
             a == Second(st.Stack)
             p == Pop2(st)
         IN  IF BothInt(a, b) THEN Ok(Push(p, IntValue(a.v + b.v)))
             ELSE IF BothStr(a, b) THEN
                  IF ~(StrOk(p, a) /\ StrOk(p, b)) THEN Panic(p, "index out of range")
                  ELSE LET r == RegisterString(p, StrOf(p, a) \o StrOf(p, b))
                       IN  Ok(Push(r, StringValue(Len(r.Strings) - 1)))
             ELSE Err(p, "invalid operand types for add")

(* a is the top of the stack, b the value below it; the result is a - b. *)
executeSub(st) ==
    IF Len(st.Stack) < 2 THEN Err(st, "stack underflow")
    ELSE LET a == Top(st.Stack)
             b == Second(st.Stack)
             p == Pop2(st)
         IN  IF BothInt(a, b) THEN Ok(Push(p, IntValue(a.v - b.v)))
             ELSE Err(p, "invalid operand types for sub")

executeMul(st) ==
    IF Len(st.Stack) < 2 THEN Err(st, "stack underflow")
    ELSE LET b == Top(st.Stack)
             a == Second(st.Stack)
             p == Pop2(st)
         IN  IF BothInt(a, b) THEN Ok(Push(p, IntValue(a.v * b.v)))
             ELSE Err(p, "invalid operand types for mul")

(* a is the top of the stack, b the value below it; the result is a / b,  *)
(* and Go panics when b is zero.                                          *)
executeDiv(st) ==
    IF Len(st.Stack) < 2 THEN Err(st, "stack underflow")
    ELSE LET a == Top(st.Stack)
             b == Second(st.Stack)
             p == Pop2(st)
         IN  IF BothInt(a, b) THEN
                  IF b.v = 0 THEN Panic(p, "integer divide by zero")
                  ELSE Ok(Push(p, IntValue(GoDiv(a.v, b.v))))
             ELSE Err(p, "invalid operand types for div")

executeMod(st) ==
    IF Len(st.Stack) < 2 THEN Err(st, "stack underflow")
    ELSE LET a == Top(st.Stack)
             b == Second(st.Stack)
             p == Pop2(st)
         IN  IF BothInt(a, b) THEN
                  IF b.v = 0 THEN Panic(p, "integer divide by zero")
                  ELSE Ok(Push(p, IntValue(GoMod(a.v, b.v))))
             ELSE Err(p, "invalid operand types for mod")

executeEq(st) ==
    IF Len(st.Stack) < 2 THEN Err(st, "stack underflow")
    ELSE LET b == Top(st.Stack)
             a == Second(st.Stack)
             p == Pop2(st)
         IN  IF BothInt(a, b) THEN Ok(Push(p, Bool(a.v = b.v)))
             ELSE IF BothStr(a, b) THEN
                  IF ~(StrOk(p, a) /\ StrOk(p, b)) THEN Panic(p, "index out of range")
                  ELSE Ok(Push(p, Bool(StrOf(p, a) = StrOf(p, b))))
             ELSE Err(p, "invalid operand types for equality")

(* On operands of different types executeNeq falls out of its switch and  *)
(* returns nil with both operands popped.                                 *)
executeNeq(st) ==
    IF Len(st.Stack) < 2 THEN Err(st, "stack underflow")
    ELSE LET b == Top(st.Stack)
             a == Second(st.Stack)
             p == Pop2(st)
         IN  IF BothInt(a, b) THEN Ok(Push(p, Bool(a.v # b.v)))
             ELSE IF BothStr(a, b) THEN
                  IF ~(StrOk(p, a) /\ StrOk(p, b)) THEN Panic(p, "index out of range")
                  ELSE Ok(Push(p, Bool(StrOf(p, a) # StrOf(p, b))))
             ELSE Ok(p)

executeLt(st) ==
    IF Len(st.Stack) < 2 THEN Err(st, "stack underflow")
    ELSE LET b == Top(st.Stack)
             a == Second(st.Stack)
             p == Pop2(st)
         IN  IF BothInt(a, b) THEN Ok(Push(p, Bool(a.v < b.v)))
             ELSE Err(p, "invalid operand types for less than")

(* executeGt, executeLte and executeGte take a from the top of the stack  *)
(* and b from below it, and return nil when the operands are not both Int. *)
executeGt(st) ==
    IF Len(st.Stack) < 2 THEN Err(st, "stack underflow")
    ELSE LET a == Top(st.Stack)
             b == Second(st.Stack)
             p == Pop2(st)
         IN  IF BothInt(a, b) THEN Ok(Push(p, Bool(a.v > b.v)))
             ELSE Ok(p)

executeLte(st) ==
    IF Len(st.Stack) < 2 THEN Err(st, "stack underflow")
    ELSE LET a == Top(st.Stack)
             b == Second(st.Stack)
             p == Pop2(st)
         IN  IF BothInt(a, b) THEN Ok(Push(p, Bool(a.v <= b.v)))
             ELSE Ok(p)

executeGte(st) ==
    IF Len(st.Stack) < 2 THEN Err(st, "stack underflow")
    ELSE LET a == Top(st.Stack)
             b == Second(st.Stack)
             p == Pop2(st)
         IN  IF BothInt(a, b) THEN Ok(Push(p, Bool(a.v >= b.v)))
             ELSE Ok(p)

executeLoad(st, code) ==
    IF st.PC >= Len(code) THEN Err(st, "program counter out of bounds")
    ELSE LET varIdx == ByteAt(code, st.PC) IN
         IF varIdx >= Len(st.Locals) THEN Err(st, "variable index out of bounds")
         ELSE Ok([Push(st, st.Locals[varIdx + 1]) EXCEPT !.PC = @ + 1])

(* One nil slot is appended when varIdx >= len(Locals); the assignment    *)
(* Locals[varIdx] then panics if varIdx is still out of range.            *)
executeStore(st, code) ==
    IF st.PC >= Len(code) THEN Err(st, "program counter out of bounds")
    ELSE IF Len(st.Stack) = 0 THEN Err(st, "stack underflow")
    ELSE LET varIdx == ByteAt(code, st.PC)
             grown == IF varIdx >= Len(st.Locals)
                      THEN [st EXCEPT !.Locals = Append(@, NilValue)]
                      ELSE st
         IN  IF varIdx >= Len(grown.Locals) THEN Panic(grown, "index out of range")
             ELSE Ok([grown EXCEPT !.Locals[varIdx + 1] = Top(st.Stack),
                                   !.Stack = DropLast(@, 1),
                                   !.PC = @ + 1])

JumpAddr(st, code) == ByteAt(code, st.PC) * 256 + ByteAt(code, st.PC + 1)

executeJmp(st, code) ==
    IF st.PC + 1 >= Len(code) THEN Err(st, "invalid jump address")
    ELSE Ok([st EXCEPT !.PC = JumpAddr(st, code)])

(* executeJmpIfZero that tests the top of the stack and leaves it there. *)
executeJmpIfZero_valueKept(st, code) ==
    IF Top(st.Stack) = IntValue(0)
    THEN Ok([st EXCEPT !.PC = JumpAddr(st, code)])
    ELSE Ok([st EXCEPT !.PC = @ + 2])

(* executeJmpIfZero that pops the value and never jumps. *)
executeJmpIfZero_fallsThrough(st, code) ==
    Ok([st EXCEPT !.Stack = DropLast(@, 1), !.PC = @ + 2])

(* executeJmpIfZero with the test inverted: it jumps unless the value is   *)
(* IntValue(0).                                                            *)
executeJmpIfZero_inverted(st, code) ==
    LET p == [st EXCEPT !.Stack = DropLast(@, 1)]
    IN  IF Top(st.Stack) # IntValue(0)
        THEN Ok([p EXCEPT !.PC = JumpAddr(st, code)])
        ELSE Ok([p EXCEPT !.PC = @ + 2])

executeJmpIfZero(st, code) ==
    IF Len(st.Stack) = 0 THEN Err(st, "stack underflow")
    ELSE IF st.PC + 1 >= Len(code) THEN Err(st, "invalid jump address")
    ELSE LET condition == Top(st.Stack)
             p == [st EXCEPT !.Stack = DropLast(@, 1)]
         IN  IF condition = IntValue(0)
             THEN Ok([p EXCEPT !.PC = JumpAddr(st, code)])
             ELSE Ok([p EXCEPT !.PC = @ + 2])

(***************************************************************************)
(* printFunc, the one host function the repository registers              *)
(* (RegisterBuiltins): it prints its arguments and returns IntValue(0).    *)
(* A printed line is the sequence of its rendered arguments.  A            *)
(* StringValue whose Index is outside the strings table panics.            *)
(***************************************************************************)
printFunc(st, args) ==
    IF \E i \in DOMAIN args : args[i].t = "str" /\ ~StrOk(st, args[i])
    THEN [res |-> "panic", line |-> <<>>, val |-> IntValue(0)]
    ELSE [res |-> "ok",
          line |-> [i \in DOMAIN args |->
                      IF args[i].t = "str" THEN StrOf(st, args[i]) ELSE args[i].v],
          val |-> IntValue(0)]

(* executeCall of a registered function that pops the arguments and calls  *)
(* the function but leaves its result off the stack.                       *)
executeCall_resultDropped(st, code, functions) ==
    LET numArgs == ByteAt(code, st.PC + 1)
        args == SubSeq(st.Stack, Len(st.Stack) - numArgs + 1, Len(st.Stack))
        p == [st EXCEPT !.Stack = DropLast(@, numArgs)]
    IN  [Ok([p EXCEPT !.PC = @ + 2]) EXCEPT !.out = << printFunc(p, args).line >>]

(***************************************************************************)
(* executeCall.  With a registered function: numArgs values are popped     *)
(* from the top into args[numArgs-1] .. args[0]; running out of stack is   *)
(* an error that leaves the values popped so far popped.  With no          *)
(* registered function: the pc is pushed on the call stack and             *)
(* Locals[PC].(IntValue) is evaluated, which panics when PC is outside the *)
(* locals or the slot holds no IntValue; otherwise the pc is set from the  *)
(* slot and an error is returned.                                          *)
(***************************************************************************)
executeCall(st, code, functions) ==
    IF st.PC + 1 >= Len(code) THEN Panic(st, "index out of range")
    ELSE LET funcIdx == ByteAt(code, st.PC)
             numArgs == ByteAt(code, st.PC + 1)
         IN  IF funcIdx \in functions THEN
                  IF Len(st.Stack) < numArgs
                  THEN Err([st EXCEPT !.Stack = <<>>],
                           "stack underflow while getting function arguments")
                  ELSE LET args == SubSeq(st.Stack, Len(st.Stack) - numArgs + 1,
                                          Len(st.Stack))
                           p == [st EXCEPT !.Stack = DropLast(@, numArgs)]
                           r == printFunc(p, args)
                       IN  IF r.res = "panic" THEN Panic(p, "index out of range")
                           ELSE [Ok([Push(p, r.val) EXCEPT !.PC = @ + 2])
                                   EXCEPT !.out = <<r.line>>]
             ELSE LET c == [st EXCEPT !.CallStack = Append(@, st.PC)] IN
                  IF st.PC >= Len(st.Locals) THEN Panic(c, "index out of range")
                  ELSE IF st.Locals[st.PC + 1].t # "int"
                       THEN Panic(c, "interface conversion")
                  ELSE Err([c EXCEPT !.PC = st.Locals[st.PC + 1].v + 1],
                           "unknown function index")

executeRet(st) ==
    IF Len(st.CallStack) = 0 THEN Err(st, "call stack underflow")
    ELSE Ok([st EXCEPT !.PC = Top(st.CallStack) + 1,
                       !.CallStack = DropLast(@, 1)])

(* HALT leaving a status value on the stack. *)
executeHalt_pushesStatus(st) == [Ok(Push(st, IntValue(0))) EXCEPT !.halt = TRUE]

executeHalt(st) == [Ok(st) EXCEPT !.halt = TRUE]

executePushStr(st, code) ==
    IF st.PC >= Len(code) THEN Err(st, "program counter out of bounds")
    ELSE LET strIdx == ByteAt(code, st.PC) IN
         IF strIdx >= Len(st.Strings) THEN Err(st, "string index out of bounds")
         ELSE Ok([Push(st, StringValue(strIdx)) EXCEPT !.PC = @ + 1])

(***************************************************************************)
(* executeInstruction: fetch the opcode at PC, advance PC, dispatch.       *)
(* Both callers (stepToNextLine, the Continue loop) test                   *)
(* PC < len(bytecode) before they call it.                                 *)
(***************************************************************************)
executeInstruction(st0, code, functions) ==
    LET instruction == ByteAt(code, st0.PC)
        st == [st0 EXCEPT !.PC = @ + 1]
    IN  CASE instruction = InstrPush -> executePush(st, code)
          [] instruction = InstrPop -> executePop(st, code)
          [] instruction = InstrAdd -> executeAdd(st)
          [] instruction = InstrSub -> executeSub(st)
          [] instruction = InstrMul -> executeMul(st)
          [] instruction = InstrDiv -> executeDiv(st)
          [] instruction = InstrMod -> executeMod(st)
          [] instruction = InstrEq -> executeEq(st)
          [] instruction = InstrNeq -> executeNeq(st)
          [] instruction = InstrLt -> executeLt(st)
          [] instruction = InstrGt -> executeGt(st)
          [] instruction = InstrLte -> executeLte(st)
          [] instruction = InstrGte -> executeGte(st)
          [] instruction = InstrLoad -> executeLoad(st, code)
          [] instruction = InstrStore -> executeStore(st, code)
          [] instruction = InstrJmp -> executeJmp(st, code)
          [] instruction = InstrJmpIfZero -> executeJmpIfZero(st, code)
          [] instruction = InstrCall -> executeCall(st, code, functions)
          [] instruction = InstrRet -> executeRet(st)
          [] instruction = InstrHalt -> executeHalt(st)
          [] instruction = InstrPushStr -> executePushStr(st, code)
          [] OTHER -> Err(st, "unknown instruction")

(***************************************************************************)
(* The compiler (src/unnamed/part_010).                                    *)
(*                                                                         *)
(* Tokens as the lexer delivers them: a type and a value.  The value of an *)
(* Int token is the number strconv.Atoi reads from it; the value of a      *)
(* String token is the literal with its quotes, as a sequence of           *)
(* characters.                                                             *)
(***************************************************************************)
IntTok(n) == [type |-> "Int", value |-> n]
StringTok(chars) == [type |-> "String", value |-> chars]
IdentTok(name) == [type |-> "Ident", value |-> name]
PunctTok(p) == [type |-> "Punct", value |-> p]

PREC_COMPARE == 1
PREC_TERM == 2
PREC_FACTOR == 3

operators ==
    [op \in {"+", "-", "*", "/", "%", "==", "!=", "<", "<=", ">", ">="} |->
        CASE op \in {"+", "-"} -> PREC_TERM
          [] op \in {"*", "/", "%"} -> PREC_FACTOR
          [] OTHER -> PREC_COMPARE]

IsPunct(toks, p) ==
    /\ Len(toks) > 0
    /\ toks[1].type = "Punct"
    /\ toks[1].value = p

(* The syntax tree: Expr{Left *Term, Op *string, Right *Expr}, with Op ""  *)
(* and Right NilExpr for nil, and Term as its one non-nil alternative.     *)
NilExpr == [nil |-> TRUE]
MkExpr(left, op, right) == [Left |-> left, Op |-> op, Right |-> right]
MkTerm(kind, val) == [kind |-> kind, val |-> val]
MkCall(name, args) == [Function |-> name, Args |-> args]

Parsed(node, rest) == [ok |-> TRUE, node |-> node, rest |-> rest]
ParseError == [ok |-> FALSE, node |-> NilExpr, rest |-> << >>]

RECURSIVE ExprParse(_)
RECURSIVE TermParse(_)
RECURSIVE ParseArgs(_, _)

(***************************************************************************)
(* Expr.Parse: a term, and if an operator follows, the operator and the    *)
(* whole rest of the expression as the right operand.  When the right      *)
(* operand's operator binds tighter, the right operand is rebuilt from its *)
(* own three fields.                                                       *)
(***************************************************************************)
ExprParse(toks) ==
    LET term == TermParse(toks) IN
    IF ~term.ok THEN ParseError
    ELSE IF Len(term.rest) > 0 /\ term.rest[1].type = "Punct"
               /\ term.rest[1].value \in DOMAIN operators
    THEN LET op == term.rest[1].value
             right == ExprParse(Tail(term.rest))
         IN  IF ~right.ok THEN ParseError
             ELSE IF right.node.Op # ""
                       /\ operators[right.node.Op] > operators[op]
             THEN Parsed(MkExpr(term.node, op,
                                MkExpr(right.node.Left, right.node.Op,
                                       right.node.Right)),
                         right.rest)
             ELSE Parsed(MkExpr(term.node, op, right.node), right.rest)
    ELSE Parsed(MkExpr(term.node, "", NilExpr), term.rest)

(***************************************************************************)
(* Term.Parse: a number, a string literal, a call or a variable, or an     *)
(* expression in parentheses.                                              *)
(***************************************************************************)
TermParse(toks) ==
    IF Len(toks) = 0 THEN ParseError
    ELSE LET token == toks[1]
             rest == Tail(toks)
         IN  CASE token.type = "Int" -> Parsed(MkTerm("Number", token.value), rest)
               [] token.type = "String" -> Parsed(MkTerm("String", token.value), rest)
               [] token.type = "Ident" ->
                    IF IsPunct(rest, "(")
                    THEN LET args == ParseArgs(Tail(rest), << >>)
                         IN  IF ~args.ok THEN ParseError
                             ELSE Parsed(MkTerm("Call", MkCall(token.value, args.node)),
                                         args.rest)
                    ELSE Parsed(MkTerm("Variable", token.value), rest)
               [] token.type = "Punct" ->
                    IF token.value = "("
                    THEN LET expr == ExprParse(rest)
                         IN  IF ~expr.ok \/ ~IsPunct(expr.rest, ")") THEN ParseError
                             ELSE Parsed(MkTerm("SubExpr", expr.node), Tail(expr.rest))
                    ELSE ParseError
               [] OTHER -> ParseError

(* The argument loop of a call in Term.Parse, entered after the "(". *)
ParseArgs(toks, args) ==
    IF Len(toks) = 0 THEN ParseError
    ELSE IF IsPunct(toks, ")") THEN Parsed(args, Tail(toks))
    ELSE IF Len(args) > 0 /\ ~IsPunct(toks, ",") THEN ParseError
    ELSE LET arg == ExprParse(IF Len(args) > 0 THEN Tail(toks) ELSE toks)
         IN  IF ~arg.ok THEN ParseError
             ELSE ParseArgs(arg.rest, Append(args, arg.node))

(***************************************************************************)
(* Statements.  In the source text (Program as drawn by Init) Expr and     *)
(* Args hold tokens; in the parsed Program they hold syntax trees.  Pos is *)
(* the line of the statement's first token, Name the assigned variable or  *)
(* the called function; Then also holds the body of a while; an absent     *)
(* else-block is empty.                                                    *)
(***************************************************************************)
MkStmt(kind, pos, name, expr, args, then, else) ==
    [kind |-> kind, Pos |-> pos, Name |-> name, Expr |-> expr, Args |-> args,
     Then |-> then, Else |-> else]

Assignment(pos, name, expr) ==
    MkStmt("Assignment", pos, name, expr, << >>, << >>, << >>)
IfStmt(pos, cond, then, else) == MkStmt("IfStmt", pos, "", cond, << >>, then, else)
WhileStmt(pos, cond, body) == MkStmt("WhileStmt", pos, "", cond, << >>, body, << >>)
CallStmt(pos, name, args) == MkStmt("Call", pos, name, << >>, args, << >>, << >>)

(* An expression of the text parses if Expr.Parse accepts it and the next  *)
(* token is not part of it.                                                *)
ParsesWhole(toks) == ExprParse(toks).ok /\ ExprParse(toks).rest = << >>

RECURSIVE ParseStatement(_)
RECURSIVE ParseBlock(_)
(* parser.ParseString: the grammar's statement structure with every        *)
(* expression handed to Expr.Parse.                                        *)
ParseStatement(stmt) ==
    [stmt EXCEPT
        !.Expr = IF stmt.kind = "Call" THEN << >> ELSE ExprParse(stmt.Expr).node,
        !.Args = [i \in DOMAIN stmt.Args |-> ExprParse(stmt.Args[i]).node],
        !.Then = ParseBlock(stmt.Then),
        !.Else = ParseBlock(stmt.Else)]

ParseBlock(stmts) ==
    IF stmts = << >> THEN << >>
    ELSE << ParseStatement(Head(stmts)) >> \o ParseBlock(Tail(stmts))

(***************************************************************************)
(* The Compiler struct.  Maps are functions on the keys present; a label   *)
(* "L<n>" is its number n.  reserved holds the positions of the two-byte   *)
(* jump operands that were appended as 0, 0 and not yet overwritten (the   *)
(* live jumpPos, endJumpPos and jumpToEndPos of compileStatement).         *)
(* inSync records that currentPos was len(code) after every write to code  *)
(* so far.                                                                 *)
(***************************************************************************)
NoMap == << >>

NewCompiler ==
    [code |-> << >>, labels |-> NoMap, vars |-> NoMap, funcs |-> NoMap,
     strings |-> NoMap, nextVar |-> 0, nextLabel |-> 0, nextFunc |-> 0,
     nextString |-> 0, currentPos |-> 0, currentLine |-> 1, sourceMap |-> NoMap,
     reserved |-> {}, inSync |-> TRUE]

builtinFunctions == ("print" :> 0) @@ ("add" :> 1)

MapPut(m, k, v) == (k :> v) @@ m

(* A conversion to byte that keeps the int. *)
Byte_keepsInt(n) == n

(* byte(n) of a Go int. *)
Byte(n) == n % 256
HiByte(addr) == Byte(addr \div 256)
LoByte(addr) == Byte(addr)

emit(c, op, operands) ==
    [c EXCEPT !.code = (@ \o << op >>) \o operands,
              !.currentPos = @ + 1 + Len(operands),
              !.inSync = @ /\ c.currentPos + 1 + Len(operands)
                                = Len(c.code) + 1 + Len(operands)]

(* The two bytes appended without advancing currentPos. *)
reserve_keepsPos(c) ==
    [c EXCEPT !.code = @ \o << 0, 0 >>,
              !.reserved = @ \cup {c.currentPos},
              !.inSync = @ /\ c.currentPos = Len(c.code) + 2]

(* c.code = append(c.code, 0, 0); c.currentPos += 2 *)
reserve(c) ==
    [c EXCEPT !.code = @ \o << 0, 0 >>,
              !.currentPos = @ + 2,
              !.reserved = @ \cup {c.currentPos},
              !.inSync = @ /\ c.currentPos + 2 = Len(c.code) + 2]

(* patch writing the address of the byte after the label. *)
patch_nextByte(c, pos, addr) ==
    [c EXCEPT !.code = (SubSeq(@, 1, pos)
                            \o << HiByte(addr + 1), LoByte(addr + 1) >>)
                           \o SubSeq(@, pos + 3, Len(@)),
              !.reserved = @ \ {pos}]

(* The two bytes at pos are replaced by the address of the label. *)
patch(c, pos, addr) ==
    [c EXCEPT !.code = (SubSeq(@, 1, pos) \o << HiByte(addr), LoByte(addr) >>)
                           \o SubSeq(@, pos + 3, Len(@)),
              !.reserved = @ \ {pos},
              !.inSync = @ /\ c.currentPos =
                                Len(SubSeq(c.code, 1, pos)) + 2
                                  + Len(SubSeq(c.code, pos + 3, Len(c.code)))]

(* getVarIdx with block scoping: every use of a name gets a fresh slot. *)
getVarIdx_freshSlot(c, name) ==
    [c |-> [c EXCEPT !.vars = MapPut(@, name, c.nextVar), !.nextVar = @ + 1],
     idx |-> c.nextVar]

getVarIdx(c, name) ==
    IF name \in DOMAIN c.vars THEN [c |-> c, idx |-> c.vars[name]]
    ELSE [c |-> [c EXCEPT !.vars = MapPut(@, name, c.nextVar), !.nextVar = @ + 1],
          idx |-> c.nextVar]

getFuncIdx(c, name) ==
    IF name \in DOMAIN builtinFunctions
    THEN [c |-> c, idx |-> builtinFunctions[name]]
    ELSE IF name \in DOMAIN c.funcs THEN [c |-> c, idx |-> c.funcs[name]]
    ELSE [c |-> [c EXCEPT !.funcs = MapPut(@, name, c.nextFunc), !.nextFunc = @ + 1],
          idx |-> c.nextFunc]

createLabel(c) == [c |-> [c EXCEPT !.nextLabel = @ + 1], label |-> c.nextLabel]

setLabel(c, label) == [c EXCEPT !.labels = MapPut(@, label, c.currentPos)]

(***************************************************************************)
(* unescapeString: the literal without its quotes, with \n, \t, \r, \" and *)
(* \\ replaced by the character they stand for and any other backslash     *)
(* pair kept as it is.  Characters are one-character strings.              *)
(***************************************************************************)
RECURSIVE Unescape(_)
Unescape(s) ==
    IF Len(s) = 0 THEN << >>
    ELSE IF s[1] = "\\" /\ Len(s) >= 2
    THEN (CASE s[2] = "n" -> << "\n" >>
            [] s[2] = "t" -> << "\t" >>
            [] s[2] = "r" -> << "\r" >>
            [] s[2] = "\"" -> << "\"" >>
            [] s[2] = "\\" -> << "\\" >>
            [] OTHER -> << "\\", s[2] >>) \o Unescape(SubSeq(s, 3, Len(s)))
    ELSE << s[1] >> \o Unescape(Tail(s))

unescapeString(s) == Unescape(SubSeq(s, 2, Len(s) - 1))

(* internString keyed by the literal as written, quotes and escapes        *)
(* included.                                                               *)
internString_rawKey(c, s) ==
    IF s \in DOMAIN c.strings THEN [c |-> c, idx |-> c.strings[s]]
    ELSE [c |-> [c EXCEPT !.strings = MapPut(@, s, c.nextString),
                          !.nextString = @ + 1],
          idx |-> c.nextString]

internString(c, s) ==
    LET unescaped == unescapeString(s) IN
    IF unescaped \in DOMAIN c.strings THEN [c |-> c, idx |-> c.strings[unescaped]]
    ELSE [c |-> [c EXCEPT !.strings = MapPut(@, unescaped, c.nextString),
                          !.nextString = @ + 1],
          idx |-> c.nextString]

registerLine(c, line) ==
    IF line # c.currentLine
    THEN [c EXCEPT !.currentLine = line,
                   !.sourceMap = MapPut(@, c.currentPos, line)]
    ELSE c

RECURSIVE compileExpr(_, _)
RECURSIVE compileTerm(_, _)
RECURSIVE compileArgs(_, _)
RECURSIVE compileStatement(_, _)
RECURSIVE compileBlock(_, _)

OpInstr(op) ==
    CASE op = "+" -> InstrAdd
      [] op = "-" -> InstrSub
      [] op = "*" -> InstrMul
      [] op = "/" -> InstrDiv
      [] op = "%" -> InstrMod
      [] op = "==" -> InstrEq
      [] op = "!=" -> InstrNeq
      [] op = "<" -> InstrLt
      [] op = "<=" -> InstrLte
      [] op = ">" -> InstrGt
      [] op = ">=" -> InstrGte

(* compileExpr: the left term, then the right expression, then the         *)
(* operator's instruction.                                                 *)
compileExpr(c, expr) ==
    IF expr.Op = "" THEN compileTerm(c, expr.Left)
    ELSE emit(compileExpr(compileTerm(c, expr.Left), expr.Right),
              OpInstr(expr.Op), << >>)

(* The loop of compileCall over call.Args. *)
compileArgs(c, args) ==
    IF args = << >> THEN c
    ELSE compileArgs(compileExpr(c, Head(args)), Tail(args))

compileCall(c, name, args) ==
    LET f == getFuncIdx(compileArgs(c, args), name)
    IN  emit(f.c, InstrCall, << Byte(f.idx), Byte(Len(args)) >>)

compileTerm(c, term) ==
    CASE term.kind = "Number" -> emit(c, InstrPush, << Byte(term.val) >>)
      [] term.kind = "String" ->
           LET s == internString(c, term.val)
           IN  emit(s.c, InstrPushStr, << Byte(s.idx) >>)
      [] term.kind = "Variable" ->
           LET v == getVarIdx(c, term.val)
           IN  emit(v.c, InstrLoad, << Byte(v.idx) >>)
      [] term.kind = "Call" -> compileCall(c, term.val.Function, term.val.Args)
      [] term.kind = "SubExpr" -> compileExpr(c, term.val)

(* The loops of compileStatement over Then, Else and Body. *)
compileBlock(c, stmts) ==
    IF stmts = << >> THEN c
    ELSE LET next == compileStatement(c, Head(stmts))
         IN  IF next.currentPos >= 0 THEN compileBlock(next, Tail(stmts)) ELSE next

(***************************************************************************)
(* compileStatement.  An if reserves the operand of its JMP_IF_ZERO and of *)
(* the JMP that ends the then-block and overwrites both once the else- and *)
(* end-label are set; a while emits its back-jump with the start address   *)
(* and overwrites the operand of its JMP_IF_ZERO with the end address.     *)
(***************************************************************************)
compileStatement(c, stmt) ==
    CASE stmt.kind = "Assignment" ->
           LET e == compileExpr(registerLine(c, stmt.Pos), stmt.Expr)
               v == getVarIdx(e, stmt.Name)
           IN  emit(v.c, InstrStore, << Byte(v.idx) >>)
      [] stmt.kind = "IfStmt" ->
           LET l1 == createLabel(registerLine(c, stmt.Pos))
               endLabel == l1.label
               l2 == createLabel(l1.c)
               elseLabel == l2.label
               cond == emit(compileExpr(l2.c, stmt.Expr), InstrJmpIfZero, << >>)
               jumpPos == cond.currentPos
               then == emit(compileBlock(reserve(cond), stmt.Then), InstrJmp, << >>)
               endJumpPos == then.currentPos
               else == compileBlock(setLabel(reserve(then), elseLabel), stmt.Else)
               end == setLabel(else, endLabel)
           IN  patch(patch(end, jumpPos, end.labels[elseLabel]),
                     endJumpPos, end.labels[endLabel])
      [] stmt.kind = "WhileStmt" ->
           LET l1 == createLabel(registerLine(c, stmt.Pos))
               startLabel == l1.label
               l2 == createLabel(l1.c)
               endLabel == l2.label
               cond == emit(compileExpr(setLabel(l2.c, startLabel), stmt.Expr),
                            InstrJmpIfZero, << >>)
               jumpToEndPos == cond.currentPos
               body == emit(compileBlock(reserve(cond), stmt.Then), InstrJmp, << >>)
               startAddr == body.labels[startLabel]
               back == [body EXCEPT
                          !.code = @ \o << HiByte(startAddr), LoByte(startAddr) >>,
                          !.currentPos = @ + 2,
                          !.inSync = @ /\ body.currentPos + 2 = Len(body.code) + 2]
               end == setLabel(back, endLabel)
           IN  patch(end, jumpToEndPos, end.labels[endLabel])
      [] stmt.kind = "Call" ->
           compileCall(registerLine(c, stmt.Pos), stmt.Name, stmt.Args)

(***************************************************************************)
(* Programs: the bytecode, source map, strings and host functions that     *)
(* the driver registers with a VM before running it (NewVM,                *)
(* RegisterSourceMap, RegisterStrings, RegisterBuiltins).  The bytecode is *)
(* what the compiler emits for the source quoted with each program; a      *)
(* statement on line 1 gets no source-map entry because the compiler's     *)
(* currentLine starts at 1.                                                *)
(***************************************************************************)

(*  val i = 0                                                              *)
(*  while i < n do                                                         *)
(*    val i = i + 1                                                        *)
(*    print(i)                                                             *)
(*  end                                                                    *)
CountingLoop(n) ==
    [code |-> << InstrPush, 0, InstrStore, 0,
                 InstrLoad, 0, InstrPush, n, InstrLt, InstrJmpIfZero, 0, 27,
                 InstrLoad, 0, InstrPush, 1, InstrAdd, InstrStore, 0,
                 InstrLoad, 0, InstrCall, 0, 1,
                 InstrJmp, 0, 4,
                 InstrHalt >>,
     sourceMap |-> (4 :> 2) @@ (12 :> 3) @@ (19 :> 4),
     strings |-> <<>>,
     functions |-> {0},
     lines |-> 4]

(*  val r = x / y      (op = InstrDiv)    val r = x % y   (op = InstrMod)  *)
ArithProgram(op, x, y) ==
    [code |-> << InstrPush, x, InstrPush, y, op, InstrStore, 0, InstrHalt >>,
     sourceMap |-> << >>,
     strings |-> <<>>,
     functions |-> {0},
     lines |-> 1]

(*  val r = 1 op "a"   (intFirst)         val r = "a" op 1                 *)
CompareProgram(op, intFirst) ==
    [code |-> IF intFirst
              THEN << InstrPush, 1, InstrPushStr, 0, op, InstrStore, 0, InstrHalt >>
              ELSE << InstrPushStr, 0, InstrPush, 1, op, InstrStore, 0, InstrHalt >>,
     sourceMap |-> << >>,
     strings |-> << "a" >>,
     functions |-> {0},
     lines |-> 1]

(*  val x = 5                                                              *)
(*  add(1, 2)                                                              *)
(* getFuncIdx resolves add to builtinFunctions["add"] = 1, and             *)
(* RegisterBuiltins registers index 0 only.                                *)
CallProgram ==
    [code |-> << InstrPush, 5, InstrStore, 0,
                 InstrPush, 1, InstrPush, 2, InstrCall, 1, 2, InstrHalt >>,
     sourceMap |-> (4 :> 2),
     strings |-> <<>>,
     functions |-> {0},
     lines |-> 2]

(*  val x = 5                                                              *)
(*  print(x)                                                               *)
PrintProgram ==
    [code |-> << InstrPush, 5, InstrStore, 0,
                 InstrLoad, 0, InstrCall, 0, 1, InstrHalt >>,
     sourceMap |-> (4 :> 2),
     strings |-> <<>>,
     functions |-> {0},
     lines |-> 2]

CompareOps == {InstrEq, InstrNeq, InstrLt, InstrGt, InstrLte, InstrGte}

Programs ==
    {CountingLoop(0), CountingLoop(LoopBound), CallProgram, PrintProgram}
    \cup {ArithProgram(op, xy[1], xy[2]) :
            op \in {InstrDiv, InstrMod},
            xy \in {<<0, 0>>, <<0, 5>>, <<5, 0>>, <<7, 2>>}}
    \cup {CompareProgram(op, f) : op \in CompareOps, f \in BOOLEAN}

(***************************************************************************)
(* State.                                                                  *)
(*   bytecode, sourceMap, functions, lineBreakpoints, currentState,        *)
(*   history, running: the fields of type VM.                              *)
(*   output: the lines written to standard output by host functions.       *)
(*   crashed: "" while the process lives, else the reason of the           *)
(*   unrecovered panic that ended it (a panic in any goroutine ends the    *)
(*   whole Go process).                                                    *)
(*   exec: the goroutines started by Run, each with its position in        *)
(*   VM.execute; a goroutine blocked in `stateChan <- snapshot` is at      *)
(*   "send" and holds the snapshot.  Of the command it handles it keeps    *)
(*   the number and verb, the pc and history length it found (prePC,       *)
(*   preHist) and the number of snapshots it handed over since (sent).     *)
(*   client: the goroutine that calls Run, Debug, Stop and restartVM       *)
(*   (the REPL loop), with its position inside the call, the snapshot its  *)
(*   last receive returned (got) and the one that receive waits for (want: *)
(*   the answer to command id, or the first snapshot of executor id).      *)
(*   lastInstr: the most recently executed instruction with the states     *)
(*   before and after it (a history variable of the verification, never    *)
(*   read by the program).                                                 *)
(*   source: the program loadFile reads: its text, the parsed Program and  *)
(*   the index of the statement compileProgram's loop compiles next.       *)
(*   compiler: the Compiler of loadFile.                                   *)
(* The channels debugChan and stateChan are unbuffered: a send and a       *)
(* receive complete together, as one step of both goroutines.              *)
(***************************************************************************)
VARIABLES bytecode, sourceMap, functions, lineBreakpoints, numLines,
          currentState, history, running, output, crashed,
          exec, client, lastInstr, source, compiler

vars == << bytecode, sourceMap, functions, lineBreakpoints, numLines,
           currentState, history, running, output, crashed,
           exec, client, lastInstr, source, compiler >>

progVars == << bytecode, sourceMap, functions, numLines, source, compiler >>

Executors == 1 .. MaxExec

NoSnap == [kind |-> "none", cmd |-> 0, verb |-> -1, from |-> 0, state |-> NewVmState]

(* A snapshot on its way through stateChan: the clone, and which send     *)
(* statement of which goroutine produced it, in answer to which command.  *)
Snap(g, kind, cmdNo, verb) ==
    [kind |-> kind, cmd |-> cmdNo, verb |-> verb, from |-> g,
     state |-> Clone(currentState)]

SnapOf(g, kind, cmdNo, verb, st) ==
    [kind |-> kind, cmd |-> cmdNo, verb |-> verb, from |-> g, state |-> Clone(st)]

IdleExec ==
    [pc |-> "none", snap |-> NoSnap, after |-> "none", currentLine |-> 0,
     cmd |-> 0, verb |-> -1, sent |-> 0, prePC |-> 0, preHist |-> 0]

(* No file is loaded: the VM was built from bytecode directly. *)
NoSource == [text |-> << >>, program |-> << >>, next |-> 1]

NoInstr == [op |-> -1, pre |-> NewVmState, post |-> NewVmState, res |-> "none",
            why |-> "", by |-> -1]

(***************************************************************************)
(* NewVM followed by the driver's registrations: RegisterStrings fills     *)
(* currentState.Strings, RegisterSourceMap the source map and              *)
(* RegisterBuiltins the function table.  No goroutine runs yet.            *)
(***************************************************************************)
InitWith(programs) ==
    /\ \E p \in programs :
          /\ bytecode = p.code
          /\ sourceMap = p.sourceMap
          /\ functions = p.functions
          /\ numLines = p.lines
          /\ currentState = [NewVmState EXCEPT !.Strings = p.strings]
    /\ source = NoSource
    /\ compiler = NewCompiler
    /\ lineBreakpoints = {}
    /\ history = << >>
    /\ running = FALSE
    /\ output = << >>
    /\ crashed = ""
    /\ exec = [g \in Executors |-> IdleExec]
    /\ client = [pc |-> "idle", cmd |-> -1, n |-> 0, got |-> NoSnap,
                 want |-> [kind |-> "none", id |-> 0], spawned |-> 0]
    /\ lastInstr = NoInstr

Init == InitWith(Programs)

Alive == crashed = ""

Offering == {g \in Executors : exec[g].pc = "send"}

(* The receiver's half of a completed send on stateChan by goroutine g:   *)
(* g resumes after its send statement.                                    *)
Delivered(e, g) ==
    [e EXCEPT ![g].pc = e[g].after,
              ![g].snap = NoSnap,
              ![g].after = "none",
              ![g].sent = @ + 1]

(***************************************************************************)
(* `select { case <-vm.stateChan: default: }`: takes the snapshot of a     *)
(* goroutine blocked in its send if there is one, and does nothing         *)
(* otherwise.  The result is the set of possible next values of exec.      *)
(***************************************************************************)
Drained(e) ==
    LET off == {g \in Executors : e[g].pc = "send"}
    IN  IF off = {} THEN {e} ELSE {Delivered(e, g) : g \in off}

(***************************************************************************)
(* VM.Run: under the mutex, drain a pending snapshot and set running; then *)
(* start a goroutine that sends the initial snapshot and calls execute.    *)
(* RunResults is the set of possible next values of exec; the caller sets  *)
(* running and counts the goroutine.                                       *)
(***************************************************************************)
RunResults(e, k) ==
    {[d EXCEPT ![k] = [IdleExec EXCEPT !.pc = "start"]] : d \in Drained(e)}

CanSpawn == client.spawned < MaxExec

(* Goroutine g blocks in `vm.stateChan <- snap`; it goes on at `after`    *)
(* once a receiver has taken the snapshot.                                *)
Sending(e, g, snap, after) ==
    [e EXCEPT ![g].pc = "send", ![g].snap = snap, ![g].after = after]

(***************************************************************************)
(* stepToPreviousLine: pop history until a snapshot whose pc maps to a     *)
(* line that is neither the current line nor 0; that snapshot becomes the  *)
(* current state with SourceLine set to the line.  If no snapshot          *)
(* qualifies, history ends up empty and the current state stays.           *)
(***************************************************************************)
RECURSIVE PopToPreviousLine(_, _, _, _)
PopToPreviousLine(st, hist, smap, currentLine) ==
    IF Len(hist) = 0 THEN [state |-> st, history |-> hist]
    ELSE LET previousState == Clone(hist[Len(hist)])
             rest == DropLast(hist, 1)
             newLine == MapGet(smap, previousState.PC)
         IN  IF newLine # currentLine /\ newLine # 0
             THEN [state |-> [previousState EXCEPT !.SourceLine = newLine],
                   history |-> rest]
             ELSE PopToPreviousLine(st, rest, smap, currentLine)

(* stepToPreviousLine comparing against no line: a snapshot on the line   *)
(* of the current pc qualifies too.                                       *)
stepToPreviousLine_anyLine(st, hist, smap) ==
    PopToPreviousLine(st, hist, smap, 0)

stepToPreviousLine(st, hist, smap) ==
    PopToPreviousLine(st, hist, smap, MapGet(smap, st.PC))

(***************************************************************************)
(* The goroutine started by Run.                                           *)
(***************************************************************************)

(* vm.stateChan <- vm.currentState.Clone(), the initial snapshot. *)
ExecStart(g) ==
    /\ Alive
    /\ exec[g].pc = "start"
    /\ exec' = Sending(exec, g, Snap(g, "init", 0, -1), "loop")
    /\ UNCHANGED << progVars, lineBreakpoints, currentState, history, running,
                    output, crashed, client, lastInstr >>

(* The head of execute's loop: vm.running && PC < len(bytecode). *)
ExecLoop(g) ==
    /\ Alive
    /\ exec[g].pc = "loop"
    /\ exec' = [exec EXCEPT ![g].pc =
                  IF running /\ currentState.PC < Len(bytecode) THEN "recv" ELSE "fin"]
    /\ UNCHANGED << progVars, lineBreakpoints, currentState, history, running,
                    output, crashed, client, lastInstr >>

(* execute treating a StepBack on an empty history as an execution error:  *)
(* it clears running and returns after the send.                          *)
ExecRecv_emptyHistoryIsError(g) ==
    /\ Alive
    /\ exec[g].pc = "recv"
    /\ client.pc = "dbg_send"
    /\ client' = [client EXCEPT !.pc = "dbg_recv"]
    /\ LET cmd == client.cmd
           e == [exec EXCEPT ![g].cmd = client.n, ![g].verb = cmd, ![g].sent = 0,
                             ![g].prePC = currentState.PC,
                             ![g].preHist = Len(history)]
           back == IF Len(history) > 0
                   THEN stepToPreviousLine(currentState, history, sourceMap)
                   ELSE [state |-> currentState, history |-> history]
       IN  CASE cmd = DebuggerCmdPause ->
                  /\ running' = FALSE
                  /\ exec' = Sending(e, g, Snap(g, "cmd", client.n, cmd), "done")
                  /\ UNCHANGED << currentState, history >>
             [] cmd = DebuggerCmdStepNext ->
                  /\ exec' = [e EXCEPT ![g].pc = "stepnext",
                                       ![g].currentLine =
                                           MapGet(sourceMap, currentState.PC)]
                  /\ UNCHANGED << currentState, history, running >>
             [] cmd = DebuggerCmdStepBack ->
                  /\ currentState' = back.state
                  /\ history' = back.history
                  /\ running' = (running /\ Len(history) > 0)
                  /\ exec' = Sending(e, g,
                                SnapOf(g, "cmd", client.n, cmd, back.state),
                                IF Len(history) > 0 THEN "loop" ELSE "done")
             [] cmd = DebuggerCmdContinue ->
                  /\ exec' = [e EXCEPT ![g].pc = "cont"]
                  /\ UNCHANGED << currentState, history, running >>
    /\ UNCHANGED << progVars, lineBreakpoints, output, crashed, lastInstr >>

(***************************************************************************)
(* cmd := <-vm.debugChan, completing the client's vm.debugChan <- cmd, and *)
(* the switch on cmd: Pause and StepBack are handled here up to their      *)
(* send; StepNext and Continue enter their instruction loops.              *)
(***************************************************************************)
ExecRecv(g) ==
    /\ Alive
    /\ exec[g].pc = "recv"
    /\ client.pc = "dbg_send"
    /\ client' = [client EXCEPT !.pc = "dbg_recv"]
    /\ LET cmd == client.cmd
           e == [exec EXCEPT ![g].cmd = client.n, ![g].verb = cmd, ![g].sent = 0,
                             ![g].prePC = currentState.PC,
                             ![g].preHist = Len(history)]
           back == IF Len(history) > 0
                   THEN stepToPreviousLine(currentState, history, sourceMap)
                   ELSE [state |-> currentState, history |-> history]
       IN  CASE cmd = DebuggerCmdPause ->
                  /\ running' = FALSE
                  /\ exec' = Sending(e, g, Snap(g, "cmd", client.n, cmd), "done")
                  /\ UNCHANGED << currentState, history >>
             [] cmd = DebuggerCmdStepNext ->
                  /\ exec' = [e EXCEPT ![g].pc = "stepnext",
                                       ![g].currentLine =
                                           MapGet(sourceMap, currentState.PC)]
                  /\ UNCHANGED << currentState, history, running >>
             [] cmd = DebuggerCmdStepBack ->
                  /\ currentState' = back.state
                  /\ history' = back.history
                  /\ exec' = Sending(e, g,
                                SnapOf(g, "cmd", client.n, cmd, back.state), "loop")
                  /\ UNCHANGED running
             [] cmd = DebuggerCmdContinue ->
                  /\ exec' = [e EXCEPT ![g].pc = "cont"]
                  /\ UNCHANGED << currentState, history, running >>
    /\ UNCHANGED << progVars, lineBreakpoints, output, crashed, lastInstr >>

Executed(pre, r, cmd) ==
    [op |-> ByteAt(bytecode, pre.PC), pre |-> pre, post |-> r.st, res |-> r.res,
     why |-> r.why, by |-> cmd]

(***************************************************************************)
(* One iteration of stepToNextLine's loop, and its return into the         *)
(* StepNext case of execute.  The line of the pc was read once, on entry.  *)
(***************************************************************************)
ExecStepNext(g) ==
    /\ Alive
    /\ exec[g].pc = "stepnext"
    /\ IF currentState.PC >= Len(bytecode)
       THEN /\ exec' = Sending(exec, g,
                          Snap(g, "cmd", exec[g].cmd, exec[g].verb), "loop")
            /\ UNCHANGED << currentState, history, running, output, crashed,
                            lastInstr >>
       ELSE LET r == executeInstruction(currentState, bytecode, functions)
                newLine == MapGet(sourceMap, r.st.PC)
                stop == newLine # exec[g].currentLine /\ newLine # 0
                st2 == IF r.res = "ok" /\ stop
                       THEN [r.st EXCEPT !.SourceLine = newLine]
                       ELSE r.st
            IN  /\ history' = Append(history, Clone(currentState))
                /\ currentState' = st2
                /\ lastInstr' = Executed(currentState, r, DebuggerCmdStepNext)
                /\ output' = output \o r.out
                /\ crashed' = IF r.res = "panic" THEN r.why ELSE crashed
                /\ running' = IF r.res = "err" \/ r.halt THEN FALSE ELSE running
                /\ exec' =
                     CASE r.res = "panic" -> exec
                       [] r.res = "err" ->
                            Sending(exec, g,
                              SnapOf(g, "cmd", exec[g].cmd, exec[g].verb, st2), "done")
                       [] r.res = "ok" /\ stop ->
                            Sending(exec, g,
                              SnapOf(g, "cmd", exec[g].cmd, exec[g].verb, st2), "loop")
                       [] OTHER -> exec
    /\ UNCHANGED << progVars, lineBreakpoints, client >>

(***************************************************************************)
(* One iteration of the Continue loop of execute: leave the loop when      *)
(* running is false, the code has ended or the line of the pc has a        *)
(* breakpoint; otherwise execute one instruction and then append the       *)
(* state to history.                                                       *)
(***************************************************************************)
ExecContinue(g) ==
    /\ Alive
    /\ exec[g].pc = "cont"
    /\ IF \/ ~(running /\ currentState.PC < Len(bytecode))
          \/ MapGet(sourceMap, currentState.PC) \in lineBreakpoints
       THEN /\ exec' = Sending(exec, g,
                          Snap(g, "cmd", exec[g].cmd, exec[g].verb), "loop")
            /\ UNCHANGED << currentState, history, running, output, crashed,
                            lastInstr >>
       ELSE LET r == executeInstruction(currentState, bytecode, functions)
            IN  /\ currentState' = r.st
                /\ history' = IF r.res = "ok"
                              THEN Append(history, Clone(r.st))
                              ELSE history
                /\ lastInstr' = Executed(currentState, r, DebuggerCmdContinue)
                /\ output' = output \o r.out
                /\ crashed' = IF r.res = "panic" THEN r.why ELSE crashed
                /\ running' = IF r.res = "err" \/ r.halt THEN FALSE ELSE running
                /\ exec' =
                     IF r.res = "err"
                     THEN Sending(exec, g,
                            SnapOf(g, "cmd", exec[g].cmd, exec[g].verb, r.st), "done")
                     ELSE exec
    /\ UNCHANGED << progVars, lineBreakpoints, client >>

(* After the loop of execute: vm.running = false under the mutex. *)
ExecFin(g) ==
    /\ Alive
    /\ exec[g].pc = "fin"
    /\ running' = FALSE
    /\ exec' = [exec EXCEPT ![g].pc = "finsend"]
    /\ UNCHANGED << progVars, lineBreakpoints, currentState, history, output,
                    crashed, client, lastInstr >>

(* vm.stateChan <- vm.currentState.Clone(), the final snapshot. *)
ExecFinSend(g) ==
    /\ Alive
    /\ exec[g].pc = "finsend"
    /\ exec' = Sending(exec, g, Snap(g, "final", exec[g].cmd, exec[g].verb), "done")
    /\ UNCHANGED << progVars, lineBreakpoints, currentState, history, running,
                    output, crashed, client, lastInstr >>

(***************************************************************************)
(* The client.                                                             *)
(***************************************************************************)

(* REPL.Start: r.vm.Run(), then <-r.vm.stateChan (ClientReceive). *)
ClientStart ==
    /\ Alive
    /\ client.pc = "idle"
    /\ client.spawned = 0
    /\ CanSpawn
    /\ \E e2 \in RunResults(exec, client.spawned + 1) : exec' = e2
    /\ running' = TRUE
    /\ client' = [client EXCEPT !.pc = "start_recv", !.spawned = @ + 1,
                                !.want = [kind |-> "init", id |-> client.spawned + 1]]
    /\ UNCHANGED << progVars, lineBreakpoints, currentState, history, output,
                    crashed, lastInstr >>

(* <-vm.stateChan in Debug, REPL.Start and restartVM: takes the snapshot  *)
(* of one of the goroutines blocked in a send.                            *)
ClientReceive ==
    /\ Alive
    /\ client.pc \in {"start_recv", "dbg_recv", "restart_recv"}
    /\ \E g \in Offering :
          /\ exec' = Delivered(exec, g)
          /\ client' = [client EXCEPT !.pc = "idle", !.got = exec[g].snap]
    /\ UNCHANGED << progVars, lineBreakpoints, currentState, history, running,
                    output, crashed, lastInstr >>

(* VM.Debug up to its send: `if !vm.running { vm.Run() }`; the send       *)
(* vm.debugChan <- cmd completes in ExecRecv.                             *)
ClientDebug(cmd) ==
    /\ Alive
    /\ client.pc = "idle"
    /\ client.n < MaxCmds
    /\ IF running
       THEN /\ client' = [client EXCEPT !.pc = "dbg_send", !.cmd = cmd,
                                        !.n = @ + 1,
                                        !.want = [kind |-> "cmd",
                                                  id |-> client.n + 1]]
            /\ UNCHANGED << exec, running >>
       ELSE /\ CanSpawn
            /\ \E e2 \in RunResults(exec, client.spawned + 1) : exec' = e2
            /\ running' = TRUE
            /\ client' = [client EXCEPT !.pc = "dbg_send", !.cmd = cmd,
                                        !.n = @ + 1,
                                        !.want = [kind |-> "cmd",
                                                  id |-> client.n + 1],
                                        !.spawned = @ + 1]
    /\ UNCHANGED << progVars, lineBreakpoints, currentState, history, output,
                    crashed, lastInstr >>

(* VM.Stop, first half: vm.running = false under the mutex. *)
ClientStop ==
    /\ Alive
    /\ client.pc = "idle"
    /\ client.spawned > 0
    /\ running' = FALSE
    /\ client' = [client EXCEPT !.pc = "stop_drain"]
    /\ UNCHANGED << progVars, lineBreakpoints, currentState, history, output,
                    crashed, exec, lastInstr >>

(* REPL.restartVM begins with r.vm.Stop(). *)
ClientRestart ==
    /\ Alive
    /\ client.pc = "idle"
    /\ client.spawned > 0
    /\ CanSpawn
    /\ running' = FALSE
    /\ client' = [client EXCEPT !.pc = "restart_drain"]
    /\ UNCHANGED << progVars, lineBreakpoints, currentState, history, output,
                    crashed, exec, lastInstr >>

(* VM.Stop, second half: the select that drains a pending snapshot. *)
ClientDrain ==
    /\ Alive
    /\ client.pc \in {"stop_drain", "restart_drain"}
    /\ \E d \in Drained(exec) : exec' = d
    /\ client' = [client EXCEPT !.pc =
                    IF client.pc = "stop_drain" THEN "idle" ELSE "restart_new"]
    /\ UNCHANGED << progVars, lineBreakpoints, currentState, history, running,
                    output, crashed, lastInstr >>

(* restartVM keeping the history of the previous run. *)
ClientRestartRun_keepsHistory ==
    /\ Alive
    /\ client.pc = "restart_new"
    /\ currentState' = [NewVmState EXCEPT !.Strings = currentState.Strings]
    /\ \E e2 \in RunResults(exec, client.spawned + 1) : exec' = e2
    /\ running' = TRUE
    /\ client' = [client EXCEPT !.pc = "restart_recv", !.spawned = @ + 1,
                                !.want = [kind |-> "init", id |-> client.spawned + 1]]
    /\ UNCHANGED << progVars, lineBreakpoints, history, output, crashed, lastInstr >>

(* restartVM after Stop: a fresh state that keeps the strings, an empty   *)
(* history, Run; its <-r.vm.stateChan is ClientReceive.                   *)
ClientRestartRun ==
    /\ Alive
    /\ client.pc = "restart_new"
    /\ currentState' = [NewVmState EXCEPT !.Strings = currentState.Strings]
    /\ history' = << >>
    /\ \E e2 \in RunResults(exec, client.spawned + 1) : exec' = e2
    /\ running' = TRUE
    /\ client' = [client EXCEPT !.pc = "restart_recv", !.spawned = @ + 1,
                                !.want = [kind |-> "init", id |-> client.spawned + 1]]
    /\ UNCHANGED << progVars, lineBreakpoints, output, crashed, lastInstr >>

(* VM.SetLineBreakpoint(line, enabled); lineBreakpoints holds the lines   *)
(* whose map entry is true.                                               *)
SetLineBreakpoint(line, enabled) ==
    /\ Alive
    /\ client.pc = "idle"
    /\ lineBreakpoints' = IF enabled THEN lineBreakpoints \cup {line}
                          ELSE lineBreakpoints \ {line}
    /\ lineBreakpoints' # lineBreakpoints
    /\ UNCHANGED << progVars, currentState, history, running, output, crashed,
                    exec, client, lastInstr >>

ExecNext ==
    \/ \E g \in Executors : ExecStart(g)
    \/ \E g \in Executors : ExecLoop(g)
    \/ \E g \in Executors : ExecRecv(g)
    \/ \E g \in Executors : ExecStepNext(g)
    \/ \E g \in Executors : ExecContinue(g)
    \/ \E g \in Executors : ExecFin(g)
    \/ \E g \in Executors : ExecFinSend(g)

(***************************************************************************)
(* A debugging session: REPL.Start, then debugger commands and breakpoint  *)
(* changes in any order.                                                   *)
(***************************************************************************)
Next ==
    \/ ExecNext
    \/ ClientStart
    \/ ClientReceive
    \/ \E cmd \in DebuggerCmds : ClientDebug(cmd)
    \/ \E line \in 1 .. numLines, enabled \in BOOLEAN :
          SetLineBreakpoint(line, enabled)

Spec == Init /\ [][Next]_vars

(***************************************************************************)
(* A session in which the client also calls Stop and restartVM, on a       *)
(* short program and without breakpoints.                                  *)
(***************************************************************************)
NextRestart ==
    \/ ExecNext
    \/ ClientStart
    \/ ClientReceive
    \/ \E cmd \in DebuggerCmds : ClientDebug(cmd)
    \/ ClientStop
    \/ ClientRestart
    \/ ClientDrain
    \/ ClientRestartRun

InitRestart == InitWith({PrintProgram})

SpecRestart == InitRestart /\ [][NextRestart]_vars


(***************************************************************************)
(* Properties of the debugging session.                                    *)
(***************************************************************************)

(* Goroutine g has finished handling the command it received last. *)
Answered(g) ==
    /\ exec[g].cmd # 0
    /\ exec[g].pc \in {"loop", "recv", "fin", "finsend", "done"}

(* C1: every debug command issued to a running executor leads to exactly   *)
(* one published snapshot, also the command during which execution         *)
(* reaches HALT or the end of the code: the executor that received the     *)
(* command hands over one snapshot before it takes the next command or     *)
(* ends, and no second one.                                                *)
C1_OneSnapshotPerCommand ==
    \A g \in Executors :
        /\ exec[g].cmd # 0 => exec[g].sent <= 1
        /\ Answered(g) => exec[g].sent >= 1

(* What a snapshot is: the answer to command id, or the first snapshot of  *)
(* executor id.                                                            *)
Tag(snap) ==
    [kind |-> snap.kind,
     id |-> IF snap.kind = "cmd" THEN snap.cmd ELSE snap.from]

(* C2: the snapshot a receive returns to the client is the one that        *)
(* receive waits for: after the N-th command its answer, after Run or a    *)
(* restart the first snapshot of the executor just started, never a        *)
(* snapshot left over from an earlier command or an earlier run.           *)
C2_NoStaleSnapshot ==
    (client.pc = "idle" /\ client.got.kind # "none")
        => Tag(client.got) = client.want

(* The executor's handling of a StepBack that finds history non-empty. *)
StepBackHandled(g) ==
    /\ client.cmd = DebuggerCmdStepBack
    /\ Len(history) > 0
    /\ ExecRecv(g)

ExecutesInstruction(g) ==
    /\ currentState.PC < Len(bytecode)
    /\ \/ ExecStepNext(g)
       \/ /\ ExecContinue(g)
          /\ running
          /\ MapGet(sourceMap, currentState.PC) \notin lineBreakpoints

(* C4: for every instruction executed during StepNext or Continue the      *)
(* state appended to history is the state before that instruction, one     *)
(* entry per instruction.                                                  *)
C4_HistoryHoldsStateBefore ==
    [][\A g \in Executors :
          ExecutesInstruction(g) => history' = Append(history, currentState)]_vars

(* The snapshot a Continue publishes when it stopped at a breakpoint: the  *)
(* VM still runs and the line of the next pc has a breakpoint.             *)
StoppedAtBreakpoint(g) ==
    /\ exec[g].pc = "send"
    /\ exec[g].snap.kind = "cmd"
    /\ exec[g].verb = DebuggerCmdContinue
    /\ running
    /\ exec[g].snap.state.PC < Len(bytecode)
    /\ MapGet(sourceMap, exec[g].snap.state.PC) \in lineBreakpoints

(* C5: when Continue stops because the next pc maps to a line L with a     *)
(* breakpoint, the published snapshot has sourceLine L (in the counting    *)
(* loop with a breakpoint on line 3, Continue being the first command:     *)
(* sourceLine 3 and an empty stack), and the StepBack that follows from    *)
(* there publishes sourceLine 2, the line executed before.                 *)
C5_ContinuePublishesBreakpointLine ==
    \A g \in Executors :
        /\ StoppedAtBreakpoint(g) =>
              exec[g].snap.state.SourceLine =
                  MapGet(sourceMap, exec[g].snap.state.PC)
        /\ (/\ StoppedAtBreakpoint(g)
            /\ bytecode = CountingLoop(LoopBound).code
            /\ lineBreakpoints = {3}
            /\ exec[g].cmd = 1) =>
              /\ exec[g].snap.state.SourceLine = 3
              /\ exec[g].snap.state.Stack = << >>
        /\ (/\ exec[g].pc = "send"
            /\ exec[g].snap.kind = "cmd"
            /\ exec[g].verb = DebuggerCmdStepBack
            /\ bytecode = CountingLoop(LoopBound).code
            /\ client.got.verb = DebuggerCmdContinue
            /\ client.got.cmd = 1
            /\ client.got.state.PC = 12
            /\ exec[g].cmd = 2) =>
              exec[g].snap.state.SourceLine = 2

(***************************************************************************)
(* The session that uses only StepNext and StepBack.                       *)
(***************************************************************************)
NextSteps ==
    \/ \E g \in Executors :
          \/ ExecStart(g)
          \/ ExecLoop(g)
          \/ ExecRecv(g)
          \/ ExecStepNext(g)
          \/ ExecFin(g)
          \/ ExecFinSend(g)
    \/ ClientStart
    \/ ClientReceive
    \/ \E cmd \in {DebuggerCmdStepNext, DebuggerCmdStepBack} : ClientDebug(cmd)

SpecSteps == Init /\ [][NextSteps]_vars

(* The source-map entries at or before pc, and the line of the last one. *)
EntriesUpTo(smap, pc) == {k \in DOMAIN smap : k <= pc}

ClosestLine(smap, pc) ==
    LET ks == EntriesUpTo(smap, pc)
    IN  smap[CHOOSE k \in ks : \A j \in ks : j <= k]

(* C6: in a session of StepNext and StepBack only, the sourceLine of every *)
(* published snapshot is the line of the source-map entry with the         *)
(* greatest pc not above the snapshot's pc, also in the snapshot of the    *)
(* StepNext that runs to the end of the code.                              *)
C6_SourceLineIsClosestEntry ==
    \A g \in Executors :
        (/\ exec[g].pc = "send"
         /\ exec[g].snap.kind = "cmd"
         /\ EntriesUpTo(sourceMap, exec[g].snap.state.PC) # {}) =>
            exec[g].snap.state.SourceLine =
                ClosestLine(sourceMap, exec[g].snap.state.PC)

(* The client has been answered a Pause and now offers a Continue on       *)
(* debugChan, with no breakpoint set.                                      *)
ContinueAfterPause ==
    /\ client.pc = "dbg_send"
    /\ client.cmd = DebuggerCmdContinue
    /\ client.got.kind = "cmd"
    /\ client.got.verb = DebuggerCmdPause
    /\ client.got.cmd = client.n - 1
    /\ lineBreakpoints = {}

(* C7: Pause followed by Continue, with no breakpoints set, completes and  *)
(* publishes the final state a single Continue would have published: while *)
(* the Continue is on offer the session can go on, up to the executor that *)
(* takes it.                                                               *)
C7_ContinueAfterPauseCompletes ==
    ContinueAfterPause => ENABLED Next

(***************************************************************************)
(* Properties of single instructions, stated of the instruction executed   *)
(* last.                                                                   *)
(***************************************************************************)

(* The instruction executed last was DIV or MOD of two integers with the   *)
(* divisor, the right operand on top of the stack, zero.                   *)
DividedByZero ==
    /\ lastInstr.op \in {InstrDiv, InstrMod}
    /\ Len(lastInstr.pre.Stack) >= 2
    /\ BothInt(Top(lastInstr.pre.Stack), Second(lastInstr.pre.Stack))
    /\ Top(lastInstr.pre.Stack) = IntValue(0)

(* C8: DIV or MOD with a zero divisor is a runtime error that the executor *)
(* handles: the instruction returns an error, which clears running and     *)
(* publishes the answer to the command, and the VM does not crash.         *)
C8_DivisionByZeroIsHandled ==
    DividedByZero => (lastInstr.res = "err" /\ crashed = "")

(* The instruction executed last was a comparison of an integer with a     *)
(* string reference, in either order.                                      *)
ComparedMixedTags ==
    /\ lastInstr.op \in CompareOps
    /\ Len(lastInstr.pre.Stack) >= 2
    /\ {Top(lastInstr.pre.Stack).t, Second(lastInstr.pre.Stack).t} = {"int", "str"}

(* C9: a comparison of two operands of different tags always is a runtime  *)
(* error; execution never goes on past it with both operands popped and    *)
(* nothing pushed.                                                         *)
C9_MixedComparisonIsError ==
    ComparedMixedTags => lastInstr.res = "err"

(* The instruction executed last was a CALL of an index that has no        *)
(* registered host function.                                               *)
CalledUnregistered ==
    /\ lastInstr.op = InstrCall
    /\ ByteAt(bytecode, lastInstr.pre.PC + 1) \notin functions

(* C10: CALL of an index without a registered host function ends the run   *)
(* with a runtime error, whatever stack and locals hold, also for the      *)
(* builtin name add (index 1); the VM does not crash.                      *)
C10_UnregisteredCallIsError ==
    CalledUnregistered => (lastInstr.res = "err" /\ crashed = "")

(***************************************************************************)
(* Source programs.                                                        *)
(***************************************************************************)
Num(n) == << IntTok(n) >>
Var(name) == << IdentTok(name) >>
Lit(chars) == << StringTok((<< "\"" >> \o chars) \o << "\"" >>) >>
BinOp(a, op, b) == (a \o << PunctTok(op) >>) \o b
PrintStmt(pos, args) == CallStmt(pos, "print", args)

(*  val i = 0                                                              *)
(*  while i < n do                                                         *)
(*    val i = i + 1                                                        *)
(*    print(i)                                                             *)
(*  end                                                                    *)
CountingSource(n) ==
    << Assignment(1, "i", Num(0)),
       WhileStmt(2, BinOp(Var("i"), "<", Num(n)),
                 << Assignment(3, "i", BinOp(Var("i"), "+", Num(1))),
                    PrintStmt(4, << Var("i") >>) >>) >>

(*  val r = <expr>                                                         *)
ExprSource(expr) == << Assignment(1, "r", expr) >>

Chain(t, op1, op2) == BinOp(BinOp(Num(t[1]), op1, Num(t[2])), op2, Num(t[3]))
Paren(expr) == (<< PunctTok("(") >> \o expr) \o << PunctTok(")") >>
LeftFirst(t, op1, op2) ==
    BinOp(Paren(BinOp(Num(t[1]), op1, Num(t[2]))), op2, Num(t[3]))
RightFirst(t, op1, op2) ==
    BinOp(Num(t[1]), op1, Paren(BinOp(Num(t[2]), op2, Num(t[3]))))

Operands == {<< 1, 2, 3 >>, << 2, 3, 1 >>, << 7, 3, 2 >>}
OpSymbols == DOMAIN operators

(*  if <cond> then                                                         *)
(*    print("yes")                                                         *)
(*  else                   (with an else-block only)                       *)
(*    print("no")                                                          *)
(*  end                                                                    *)
(*  print("after")                                                         *)
IfSource(cond, withElse) ==
    << IfStmt(1, cond, << PrintStmt(2, << Lit(<< "y", "e", "s" >>) >>) >>,
              IF withElse THEN << PrintStmt(4, << Lit(<< "n", "o" >>) >>) >>
              ELSE << >>),
       PrintStmt(6, << Lit(<< "a", "f", "t", "e", "r" >>) >>) >>

Conditions ==
    {BinOp(Num(1), "==", Num(1)), BinOp(Num(1), "==", Num(2)), Num(0), Num(2),
     Lit(<< "s" >>)}

(*  while <cond> do                                                        *)
(*    print("body")                                                        *)
(*  end                                                                    *)
(*  print("after")                                                         *)
WhileFalseSource(cond) ==
    << WhileStmt(1, cond, << PrintStmt(2, << Lit(<< "b", "o", "d", "y" >>) >>) >>),
       PrintStmt(4, << Lit(<< "a", "f", "t", "e", "r" >>) >>) >>

FalseConditions == {Num(0), BinOp(Num(1), "==", Num(2)), BinOp(Num(2), "<", Num(1))}

(*  val i = 0                                                              *)
(*  while i < n do                                                         *)
(*    if i == 0 then                                                       *)
(*      print("a")                                                         *)
(*    else                                                                 *)
(*      while 0 do print("b") end                                          *)
(*      if i then print("c") end                                           *)
(*    end                                                                  *)
(*    val i = i + 1                                                        *)
(*  end                                                                    *)
NestedSource(n) ==
    << Assignment(1, "i", Num(0)),
       WhileStmt(2, BinOp(Var("i"), "<", Num(n)),
          << IfStmt(3, BinOp(Var("i"), "==", Num(0)),
                << PrintStmt(4, << Lit(<< "a" >>) >>) >>,
                << WhileStmt(6, Num(0), << PrintStmt(6, << Lit(<< "b" >>) >>) >>),
                   IfStmt(7, Var("i"), << PrintStmt(7, << Lit(<< "c" >>) >>) >>, << >>) >>),
             Assignment(9, "i", BinOp(Var("i"), "+", Num(1))) >>) >>

(* String literals, without their quotes: a, b, \n, \\n, \q and \\q. *)
Literals ==
    {<< "a" >>, << "b" >>, << "\\", "n" >>, << "\\", "\\", "n" >>,
     << "\\", "q" >>, << "\\", "\\", "q" >>}

(*  print(<l1>)                                                            *)
(*  print(<l2>)                                                            *)
(*  print(<l3>)                                                            *)
StringsSource(ls) ==
    << PrintStmt(1, << Lit(ls[1]) >>), PrintStmt(2, << Lit(ls[2]) >>),
       PrintStmt(3, << Lit(ls[3]) >>) >>

(*  print(1)                                                               *)
(*  print(<args>)                                                          *)
CallSource(args) == << PrintStmt(1, << Num(1) >>), PrintStmt(2, args) >>

ArgLists ==
    {<< >>, << Num(7) >>, << Num(7), Lit(<< "a" >>) >>,
     << Lit(<< "a" >>), Num(7), BinOp(Num(1), "+", Num(2)) >>}

(*  if <cond> then                                                         *)
(*    val a = 1                                                            *)
(*  end                                                                    *)
(*  val b = 2                                                              *)
BranchAssignSource(cond) ==
    << IfStmt(1, cond, << Assignment(2, "a", Num(1)) >>, << >>),
       Assignment(4, "b", Num(2)) >>

Sources ==
    {CountingSource(n) : n \in (0 .. LoopBound) \cup {10}}
    \cup {ExprSource(Chain(t, ops[1], ops[2])) :
            t \in Operands, ops \in OpSymbols \X OpSymbols}
    \cup {IfSource(cond, e) : cond \in Conditions, e \in BOOLEAN}
    \cup {WhileFalseSource(cond) : cond \in FalseConditions}
    \cup {NestedSource(n) : n \in 0 .. LoopBound}
    \cup {StringsSource(ls) : ls \in Literals \X Literals \X Literals}
    \cup {CallSource(args) : args \in ArgLists}
    \cup {BranchAssignSource(cond) : cond \in {Num(0), Num(1)}}
    \cup {ExprSource(BinOp(Lit(l), "+", Lit(r))) :
            l \in {<< "a" >>, << "b" >>}, r \in {<< "a" >>, << "b" >>}}
    \cup {ExprSource(BinOp(Paren(BinOp(Lit(<< "a" >>), "+", Lit(<< "b" >>))), "+",
                           Lit(<< "a" >>)))}
    \cup {<< CallStmt(1, name, << Num(7) >>) >> : name \in {"foo", "add"}}
    \cup {ExprSource(Num(n)) : n \in {0, 255, 256, 300, 511, 512}}
    \cup {<< >>}

(***************************************************************************)
(* REPL.loadFile: parse the text, compile the Program statement by         *)
(* statement, emit HALT, build the VM from the bytecode and register the   *)
(* builtins, the source map and the strings; then the session starts.      *)
(***************************************************************************)
InitLoad ==
    /\ \E text \in Sources : source = [text |-> text, program |-> << >>, next |-> 1]
    /\ compiler = NewCompiler
    /\ bytecode = << >>
    /\ sourceMap = NoMap
    /\ functions = {}
    /\ numLines = 1
    /\ currentState = NewVmState
    /\ lineBreakpoints = {}
    /\ history = << >>
    /\ running = FALSE
    /\ output = << >>
    /\ crashed = ""
    /\ exec = [g \in Executors |-> IdleExec]
    /\ client = [pc |-> "parse", cmd |-> -1, n |-> 0, got |-> NoSnap,
                 want |-> [kind |-> "none", id |-> 0], spawned |-> 0]
    /\ lastInstr = NoInstr

vmVars == << bytecode, sourceMap, functions, numLines, currentState,
             lineBreakpoints, history, running, output, crashed, exec,
             lastInstr >>

(* parser.ParseString and NewCompiler. *)
ParseString ==
    /\ client.pc = "parse"
    /\ source' = [source EXCEPT !.program = ParseBlock(source.text)]
    /\ compiler' = NewCompiler
    /\ client' = [client EXCEPT !.pc = "compile"]
    /\ UNCHANGED vmVars

(* One iteration of compileProgram's loop over the statements. *)
CompileStatement ==
    /\ client.pc = "compile"
    /\ source.next <= Len(source.program)
    /\ compiler' = compileStatement(compiler, source.program[source.next])
    /\ source' = [source EXCEPT !.next = @ + 1]
    /\ UNCHANGED << vmVars, client >>

(* The end of compileProgram without the emit of HALT. *)
CompileHalt_nothingEmitted ==
    /\ client.pc = "compile"
    /\ source.next > Len(source.program)
    /\ client' = [client EXCEPT !.pc = "register"]
    /\ UNCHANGED << vmVars, source, compiler >>

(* The end of compileProgram: c.emit(InstrHalt). *)
CompileHalt ==
    /\ client.pc = "compile"
    /\ source.next > Len(source.program)
    /\ compiler' = emit(compiler, InstrHalt, << >>)
    /\ client' = [client EXCEPT !.pc = "register"]
    /\ UNCHANGED << vmVars, source >>

(* VM.RegisterStrings: the slice is grown to the greatest index + 1 and    *)
(* every string is stored at its index; a slot that no string has stays    *)
(* the empty string.  (The compiler's indices are distinct, so the order   *)
(* of the map iteration does not show.)                                    *)
RegisterStrings(st, strings) ==
    LET indices == {strings[s] : s \in DOMAIN strings}
        maxIdx == IF indices = {} THEN -1
                  ELSE CHOOSE i \in indices : \A j \in indices : j <= i
    IN  [st EXCEPT !.Strings =
            [i \in 1 .. maxIdx + 1 |->
                IF \E s \in DOMAIN strings : strings[s] = i - 1
                THEN CHOOSE s \in DOMAIN strings : strings[s] = i - 1
                ELSE << >>]]

(* The rest of loadFile: NewVM, RegisterBuiltins, RegisterSourceMap for    *)
(* every entry, RegisterStrings and the breakpoint on line 1.              *)
LoadFile ==
    /\ client.pc = "register"
    /\ bytecode' = compiler.code
    /\ functions' = {builtinFunctions["print"]}
    /\ sourceMap' = compiler.sourceMap
    /\ currentState' = RegisterStrings(NewVmState, compiler.strings)
    /\ lineBreakpoints' = {1}
    /\ history' = << >>
    /\ running' = FALSE
    /\ client' = [client EXCEPT !.pc = "idle"]
    /\ UNCHANGED << numLines, output, crashed, exec, lastInstr, source, compiler >>

NextLoad ==
    \/ ParseString
    \/ CompileStatement
    \/ CompileHalt
    \/ LoadFile
    \/ ClientStart
    \/ ClientReceive
    \/ ClientDebug(DebuggerCmdContinue)
    \/ \E g \in Executors :
          \/ ExecStart(g)
          \/ ExecLoop(g)
          \/ ExecRecv(g)
          \/ ExecContinue(g)
          \/ ExecFin(g)
          \/ ExecFinSend(g)

SpecLoad == InitLoad /\ [][NextLoad]_vars

(***************************************************************************)
(* Claims about compiled programs (SpecLoad).                              *)
(***************************************************************************)

(* The operands of the CALL executed last. *)
CallFuncIdx == ByteAt(bytecode, lastInstr.pre.PC + 1)
CallArgc == ByteAt(bytecode, lastInstr.pre.PC + 2)

(* The instruction executed last was a CALL of a registered host function  *)
(* with at least argc values on the stack.                                 *)
CalledRegistered ==
    /\ lastInstr.op = InstrCall
    /\ CallFuncIdx \in functions
    /\ CallArgc <= Len(lastInstr.pre.Stack)

(* What print writes for a value. *)
Rendered(st, v) == IF v.t = "str" THEN st.Strings[v.v + 1] ELSE v.v

(* C11: CALL of a registered host function with argc <= stack depth pops   *)
(* exactly argc values and pushes exactly one result on what was below     *)
(* them, so the stack length after is the length before - argc + 1; pc     *)
(* ends past the two operand bytes; and the function got the popped values *)
(* in push order, args[argc-1] being the former top of stack: the line     *)
(* print wrote is the rendering of the top argc values from the deepest to *)
(* the top.                                                                *)
C11_CallPopsArgsPushesResult ==
    CalledRegistered =>
        LET pre == lastInstr.pre
            post == lastInstr.post
            below == Len(pre.Stack) - CallArgc
        IN  /\ lastInstr.res = "ok"
            /\ Len(post.Stack) = Len(pre.Stack) - CallArgc + 1
            /\ SubSeq(post.Stack, 1, below) = SubSeq(pre.Stack, 1, below)
            /\ Top(post.Stack) = IntValue(0)
            /\ post.PC = pre.PC + 3
            /\ Len(output) > 0
            /\ output[Len(output)] =
                 [i \in 1 .. CallArgc |-> Rendered(pre, pre.Stack[below + i])]

(* A CALL with three arguments of both tags, on a stack that holds a value *)
(* below them, has been executed.                                          *)
C11_Witness ==
    /\ CalledRegistered
    /\ CallArgc = 3
    /\ Len(lastInstr.pre.Stack) > 3
    /\ {v.t : v \in {lastInstr.pre.Stack[i] : i \in DOMAIN lastInstr.pre.Stack}}
         = {"int", "str"}

(***************************************************************************)
(* The Continue loop of execute with no breakpoint set, as a function of   *)
(* the state: instructions are executed until HALT, an error, a panic or   *)
(* the end of the code.  steps bounds the number of instructions.          *)
(***************************************************************************)
RECURSIVE ContinueLoop(_, _, _, _)
ContinueLoop(st, code, funcs, steps) ==
    IF steps = 0 THEN [res |-> "running", st |-> st]
    ELSE IF st.PC >= Len(code) THEN [res |-> "end", st |-> st]
    ELSE LET r == executeInstruction(st, code, funcs)
         IN  IF r.res # "ok" THEN [res |-> r.res, st |-> r.st]
             ELSE IF r.halt THEN [res |-> "halt", st |-> r.st]
             ELSE ContinueLoop(r.st, code, funcs, steps - 1)

MaxSteps == 16

(* The program compiled from `val r = <expr>` and run to its end: how the  *)
(* run ended and the value of r.                                           *)
ValueOf(expr) ==
    LET c == emit(compileBlock(NewCompiler, ParseBlock(ExprSource(expr))),
                  InstrHalt, << >>)
        run == ContinueLoop(RegisterStrings(NewVmState, c.strings), c.code,
                            {builtinFunctions["print"]}, MaxSteps)
    IN  [res |-> run.res,
         r |-> IF Len(run.st.Locals) > 0 THEN run.st.Locals[1] ELSE NilValue]

(* The loaded program is `val r = t1 op1 t2 op2 t3` and has run to HALT. *)
ChainHalted(t, op1, op2) ==
    /\ source.text = ExprSource(Chain(t, op1, op2))
    /\ lastInstr.op = InstrHalt

(* C12: for an unparenthesised a op1 b op2 c whose operators differ in     *)
(* precedence, the compiled code applies the operator of higher precedence *)
(* first, whichever comes first in the source: r gets the value that the   *)
(* source with that operator's operands parenthesised gives, and           *)
(* `2 * 3 + 1` gives 7.                                                    *)
C12_HigherPrecedenceFirst ==
    \A t \in Operands, op1 \in OpSymbols, op2 \in OpSymbols :
        (ChainHalted(t, op1, op2) /\ operators[op1] # operators[op2]) =>
            /\ [res |-> "halt", r |-> currentState.Locals[1]] =
                  ValueOf(IF operators[op1] > operators[op2]
                          THEN LeftFirst(t, op1, op2)
                          ELSE RightFirst(t, op1, op2))
            /\ (t = << 2, 3, 1 >> /\ op1 = "*" /\ op2 = "+") =>
                   currentState.Locals[1] = IntValue(7)

(* C13: operators of equal precedence associate to the left: for           *)
(* a op1 b op2 c with op1 and op2 of one precedence level, as in a - b - c *)
(* and a / b / c, r gets the value that `(a op1 b) op2 c` gives.           *)
C13_EqualPrecedenceAssociatesLeft ==
    \A t \in Operands, op1 \in OpSymbols, op2 \in OpSymbols :
        (ChainHalted(t, op1, op2) /\ operators[op1] = operators[op2]) =>
            [res |-> "halt", r |-> currentState.Locals[1]] =
                ValueOf(LeftFirst(t, op1, op2))

(* The number of operand bytes that follow an opcode. *)
OperandBytes(op) ==
    CASE op \in {InstrPush, InstrPushStr, InstrPop, InstrLoad, InstrStore} -> 1
      [] op \in {InstrJmp, InstrJmpIfZero, InstrCall} -> 2
      [] OTHER -> 0

(* The positions of the code at which an instruction starts, decoding from *)
(* position 0.                                                             *)
RECURSIVE InstrStartsFrom(_, _)
InstrStartsFrom(code, pc) ==
    IF pc >= Len(code) THEN {}
    ELSE {pc} \cup InstrStartsFrom(code, pc + 1 + OperandBytes(ByteAt(code, pc)))

InstrStarts(code) == InstrStartsFrom(code, 0)

(* compileProgram has returned. *)
Compiled == client.pc \notin {"parse", "compile"}

(* C14: the byte stream compileProgram returns ends with the HALT opcode,  *)
(* and that last byte is an instruction, not the operand of another one.   *)
C14_CodeEndsWithHalt ==
    Compiled =>
        /\ Len(compiler.code) > 0
        /\ compiler.code[Len(compiler.code)] = InstrHalt
        /\ (Len(compiler.code) - 1) \in InstrStarts(compiler.code)

(* The program with an if inside a while, a while and an if inside the     *)
(* else-block has been compiled.                                           *)
C14_Witness ==
    /\ Compiled
    /\ source.text = NestedSource(LoopBound)
    /\ bytecode = compiler.code

(* The positions of the JMP and JMP_IF_ZERO opcodes of the code. *)
Jumps(code) ==
    {pc \in InstrStarts(code) : ByteAt(code, pc) \in {InstrJmp, InstrJmpIfZero}}

(* (hi << 8) | lo of the operand pair of the jump at pc. *)
JumpTarget(code, pc) == ByteAt(code, pc + 1) * 256 + ByteAt(code, pc + 2)

(* C15: in the code compileProgram returns, the operand pair of every JMP  *)
(* and JMP_IF_ZERO is an address below len(code) at which an instruction   *)
(* starts, and it is the address of one of the compiler's labels; no       *)
(* reserved two-byte placeholder is left that was not overwritten.         *)
C15_JumpTargetsAreInstructions ==
    Compiled =>
        /\ \A pc \in Jumps(compiler.code) :
              /\ JumpTarget(compiler.code, pc) < Len(compiler.code)
              /\ JumpTarget(compiler.code, pc) \in InstrStarts(compiler.code)
              /\ \E l \in DOMAIN compiler.labels :
                    compiler.labels[l] = JumpTarget(compiler.code, pc)
        /\ compiler.reserved = {}

(* A program with nested if and while statements has been compiled: its    *)
(* code has six jumps, forward and backward, one of them to the HALT.      *)
C15_Witness ==
    /\ Compiled
    /\ Cardinality(Jumps(compiler.code)) >= 6
    /\ \E pc \in Jumps(compiler.code) : JumpTarget(compiler.code, pc) < pc
    /\ \E pc \in Jumps(compiler.code) :
          JumpTarget(compiler.code, pc) = Len(compiler.code) - 1

(* The loop bounds of the counting loops among the sources. *)
LoopCounts == (0 .. LoopBound) \cup {10}

(* The lines print writes when it is called with 1, 2, ..., n. *)
CountingOutput(n) == [i \in 1 .. n |-> << i >>]

(* The run of the loaded program has executed its HALT. *)
Halted == lastInstr.op = InstrHalt

(* C16: scope is flat, so `val i = i + 1` in the body of the counting loop *)
(* `val i = 0; while i < n do val i = i + 1; print(i) end` writes the one  *)
(* slot that the condition reads: the compiler has one variable, print is  *)
(* called with 1, 2, ... in that order and never more than n times, and    *)
(* when the program has halted it was called exactly n times (n = 10:      *)
(* with 1, 2, ..., 10) and i holds n.                                      *)
C16_CountingLoopPrintsOneToN ==
    \A n \in LoopCounts :
        source.text = CountingSource(n) =>
            /\ Compiled => compiler.vars = ("i" :> 0)
            /\ Len(output) <= n
            /\ output = SubSeq(CountingOutput(n), 1, Len(output))
            /\ Halted => /\ output = CountingOutput(n)
                         /\ currentState.Locals = << IntValue(n) >>

(* The counting loop to 10 has run to its HALT after ten calls of print. *)
C16_Witness ==
    /\ source.text = CountingSource(10)
    /\ Halted
    /\ Len(output) = 10

(* The lines print writes for its arguments "yes", "no", "after", "body"   *)
(* and for one letter.                                                     *)
YesLine == << << "y", "e", "s" >> >>
NoLine == << << "n", "o" >> >>
AfterLine == << << "a", "f", "t", "e", "r" >> >>
BodyLine == << << "b", "o", "d", "y" >> >>
LetterLine(l) == << << l >> >>

(* What `if cond then print("yes") [else print("no")] end print("after")`  *)
(* is to print: the line of the then-block iff the value of cond is not    *)
(* IntValue(0), else the line of the else-block if there is one; then the  *)
(* line of the statement after `end`.                                      *)
IfOutput(cond, withElse) ==
    (IF ValueOf(cond).r # IntValue(0) THEN << YesLine >>
     ELSE IF withElse THEN << NoLine >> ELSE << >>) \o << AfterLine >>

(* What NestedSource(n) is to print: in the round with i = 0 the           *)
(* then-block's "a"; in every later round neither the "b" of the inner     *)
(* while nor anything but the "c" of the inner if.                         *)
NestedOutput(n) ==
    [i \in 1 .. n |-> IF i = 1 THEN LetterLine("a") ELSE LetterLine("c")]

(* The output so far is the beginning of the expected output, and all of   *)
(* it once the program has halted.                                         *)
Prints(expected) ==
    /\ Len(output) <= Len(expected)
    /\ output = SubSeq(expected, 1, Len(output))
    /\ Halted => output = expected

(* C17: an if statement executes exactly one of its two blocks, the        *)
(* then-block iff the value of the condition is not IntValue(0) and        *)
(* otherwise the else-block, or nothing when there is no else; control     *)
(* then continues with the statement after `end`.  This holds for an if at *)
(* top level and for ifs nested in a while and in an else-block.           *)
C17_IfExecutesOneBlock ==
    /\ \A cond \in Conditions, withElse \in BOOLEAN :
          source.text = IfSource(cond, withElse) =>
              Prints(IfOutput(cond, withElse))
    /\ \A n \in 0 .. LoopBound :
          source.text = NestedSource(n) => Prints(NestedOutput(n))

(* An if with an else-block and a condition of value 0 has run its         *)
(* else-block and the statement after it and has halted.                   *)
C17_Witness ==
    /\ source.text = IfSource(BinOp(Num(1), "==", Num(2)), TRUE)
    /\ Halted
    /\ output = << NoLine, AfterLine >>

(* The programs whose first while loop has a condition that is false on    *)
(* entry.                                                                  *)
FalseOnEntry ==
    {WhileFalseSource(cond) : cond \in FalseConditions}
        \cup {CountingSource(0), NestedSource(0)}

(* The first while loop of the program: it is the first statement that     *)
(* creates labels, so its start label is L0 and its end label L1; its      *)
(* JMP_IF_ZERO is the first one of the code, and its body with the         *)
(* back-jump lies between the operand of that JMP_IF_ZERO and the end      *)
(* label.                                                                  *)
LoopStart == compiler.labels[0]
LoopEnd == compiler.labels[1]
LoopTest ==
    CHOOSE pc \in Jumps(bytecode) :
        /\ ByteAt(bytecode, pc) = InstrJmpIfZero
        /\ \A q \in Jumps(bytecode) : ByteAt(bytecode, q) = InstrJmpIfZero => pc <= q
LoopBody == (LoopTest + 3) .. (LoopEnd - 1)

(* The program is loaded into the VM. *)
Loaded == client.pc \notin {"parse", "compile", "register"}

(* C18: a while loop whose condition evaluates to IntValue(0) on entry     *)
(* executes no instruction of its body: the pc is never inside the body,   *)
(* the loop's JMP_IF_ZERO leaves the pc at the loop's end label, which is  *)
(* the first byte after the back-jump, and nothing is printed but the line *)
(* of the statement that follows the loop.                                 *)
C18_FalseWhileSkipsBody ==
    (Loaded /\ source.text \in FalseOnEntry) =>
        /\ ByteAt(bytecode, LoopEnd - 3) = InstrJmp
        /\ JumpTarget(bytecode, LoopEnd - 3) = LoopStart
        /\ currentState.PC \notin LoopBody
        /\ lastInstr.pre.PC \notin LoopBody
        /\ (lastInstr.op = InstrJmpIfZero /\ lastInstr.pre.PC = LoopTest) =>
               /\ Top(lastInstr.pre.Stack) = IntValue(0)
               /\ lastInstr.post.PC = LoopEnd
        /\ BodyLine \notin {output[i] : i \in DOMAIN output}
        /\ \A cond \in FalseConditions :
              source.text = WhileFalseSource(cond) => Prints(<< AfterLine >>)

(* The JMP_IF_ZERO of `while 2 < 1 do print("body") end` has been executed *)
(* and the program has gone on to its HALT.                                *)
C18_Witness ==
    /\ Loaded
    /\ source.text = WhileFalseSource(BinOp(Num(2), "<", Num(1)))
    /\ Halted
    /\ output = << AfterLine >>

(* The instruction executed last was a JMP_IF_ZERO with a value on the     *)
(* stack and both operand bytes in the code.                               *)
JumpedIfZero ==
    /\ lastInstr.op = InstrJmpIfZero
    /\ Len(lastInstr.pre.Stack) > 0
    /\ lastInstr.pre.PC + 2 < Len(bytecode)

(* C19: JMP_IF_ZERO pops exactly one value and changes nothing else but    *)
(* the pc; the pc becomes the 16-bit big-endian operand iff the value was  *)
(* IntValue(0), and otherwise the position after the two operand bytes.    *)
C19_JmpIfZeroPopsAndBranches ==
    JumpedIfZero =>
        LET pre == lastInstr.pre
            post == lastInstr.post
        IN  /\ lastInstr.res = "ok"
            /\ post.Stack = DropLast(pre.Stack, 1)
            /\ post.Locals = pre.Locals
            /\ post.CallStack = pre.CallStack
            /\ post.PC = IF Top(pre.Stack) = IntValue(0)
                         THEN JumpTarget(bytecode, pre.PC)
                         ELSE pre.PC + 3

(* JMP_IF_ZERO has jumped forward on IntValue(0), with another value below *)
(* it on the stack.                                                        *)
C19_Witness ==
    /\ JumpedIfZero
    /\ Top(lastInstr.pre.Stack) = IntValue(0)
    /\ Len(lastInstr.pre.Stack) > 1
    /\ lastInstr.post.PC > lastInstr.pre.PC + 3

(* JMP_IF_ZERO has fallen through on a value that is neither 0 nor 1. *)
C19_FallsThrough ==
    /\ JumpedIfZero
    /\ Top(lastInstr.pre.Stack) \notin {IntValue(0), IntValue(1)}
    /\ lastInstr.post.PC = lastInstr.pre.PC + 3

(* The loaded program is `print(l1) print(l2) print(l3)` with three       *)
(* string literals.                                                        *)
PrintsLiterals ==
    /\ Len(source.text) = 3
    /\ \A i \in 1 .. 3 :
          /\ source.text[i].kind = "Call"
          /\ Len(source.text[i].Args) = 1
          /\ Len(source.text[i].Args[1]) = 1
          /\ source.text[i].Args[1][1].type = "String"

(* The unescaped content of the literal of the i-th statement. *)
ContentOf(i) == unescapeString(source.text[i].Args[1][1].value)

(* The number of different contents that occur before the first           *)
(* occurrence of the content of the i-th literal: its index when indices   *)
(* are handed out as 0, 1, 2, ... in first-occurrence order.               *)
FirstOccurrenceIndex(i) ==
    LET first == CHOOSE j \in 1 .. i :
                    /\ ContentOf(j) = ContentOf(i)
                    /\ \A k \in 1 .. (j - 1) : ContentOf(k) # ContentOf(i)
    IN  Cardinality({ContentOf(k) : k \in 1 .. (first - 1)})

(* The operand of the PUSH_STR compiled for the i-th statement, which is   *)
(* the index internString returned for its literal: every statement        *)
(* compiles to PUSH_STR idx; CALL 0 1.                                     *)
InternedAs(i) == ByteAt(compiler.code, 5 * (i - 1) + 1)

(* The strings table of the compiler: its indices are distinct and are     *)
(* 0 .. nextString - 1.                                                    *)
IndicesAreDense ==
    /\ \A u, v \in DOMAIN compiler.strings :
          compiler.strings[u] = compiler.strings[v] => u = v
    /\ {compiler.strings[u] : u \in DOMAIN compiler.strings}
          = 0 .. (compiler.nextString - 1)

(* The index of every content stays what it is in every step of the        *)
(* compilation.                                                            *)
IndicesAreKept ==
    \A u \in DOMAIN compiler.strings :
        /\ u \in DOMAIN compiler'.strings
        /\ compiler'.strings[u] = compiler.strings[u]

(* C20: internString returns the same index for two literals whose         *)
(* unescaped contents are equal and different indices for different        *)
(* contents; the indices are 0, 1, 2, ... in the order in which the        *)
(* contents first occur; and an index once returned never changes.         *)
C20_InternStringIsStable ==
    /\ [](/\ IndicesAreDense
          /\ PrintsLiterals =>
                \A i \in 1 .. (source.next - 1) :
                    /\ InternedAs(i) = FirstOccurrenceIndex(i)
                    /\ ContentOf(i) \in DOMAIN compiler.strings
                    /\ compiler.strings[ContentOf(i)] = InternedAs(i)
                    /\ \A k \in 1 .. (source.next - 1) :
                          InternedAs(k) = InternedAs(i)
                              <=> ContentOf(k) = ContentOf(i))
    /\ [][IndicesAreKept]_vars

(* Three literals have been compiled of which the first and the third are  *)
(* written differently and have the same content, and the second has       *)
(* another content: the indices returned are 0, 1, 0.                      *)
C20_Witness ==
    /\ source.text = StringsSource(<< << "\\", "q" >>, << "a" >>,
                                      << "\\", "\\", "q" >> >>)
    /\ source.next = 4
    /\ << InternedAs(1), InternedAs(2), InternedAs(3) >> = << 0, 1, 0 >>

(***************************************************************************)
(* Claims C21..C30.                                                        *)
(***************************************************************************)

(* The line of the statement whose first instruction is at pc, 0 when no   *)
(* statement starts on a new line there.  registerLine records the pc of   *)
(* the first statement of every line but line 1: the first statement of a  *)
(* program is on line 1 and starts at pc 0.                                *)
StatementLine(pc) ==
    IF pc \in DOMAIN sourceMap THEN sourceMap[pc]
    ELSE IF pc = 0 THEN 1 ELSE 0

(* Goroutine g executes an instruction for a Continue.                     *)
ContinueExecutes(g) ==
    /\ exec[g].pc = "cont"
    /\ ExecutesInstruction(g)

(* C21: Continue never executes the first instruction of a statement that  *)
(* starts on a line with an enabled breakpoint: it stops before it, for    *)
(* every line on which a statement starts, line 1 included.                *)
C21_ContinueStopsBeforeBreakpointLine ==
    [][\A g \in Executors :
         ContinueExecutes(g) =>
             StatementLine(currentState.PC) \notin lineBreakpoints]_vars

(* The same for the lines other than line 1.                               *)
C21_ExceptLineOne ==
    [][\A g \in Executors :
         ContinueExecutes(g) =>
             StatementLine(currentState.PC) \notin lineBreakpoints \ {1}]_vars

(***************************************************************************)
(* SpecLoad with the scheduling of the Go runtime: a goroutine that can    *)
(* take a step eventually takes it, and a receive on stateChan completes   *)
(* once a sender is blocked in its send.  Nothing obliges the user to type *)
(* a command.                                                              *)
(***************************************************************************)
ExecLoadNext(g) ==
    \/ ExecStart(g)
    \/ ExecLoop(g)
    \/ ExecRecv(g)
    \/ ExecContinue(g)
    \/ ExecFin(g)
    \/ ExecFinSend(g)

SpecLoadLive ==
    /\ SpecLoad
    /\ WF_vars(ClientReceive)
    /\ \A g \in Executors : WF_vars(ExecLoadNext(g))

(* The loaded program is the empty program. *)
EmptyProgram == Loaded /\ source.text = << >>

EmptyStackAndLocals(st) == st.Stack = << >> /\ st.Locals = << >>

(* Finished: HALT was executed, the pc is at the end of the code and the   *)
(* stack and the locals are empty.                                         *)
FinishedEmpty ==
    /\ Halted
    /\ currentState.PC >= Len(bytecode)
    /\ EmptyStackAndLocals(currentState)

NextRestartVM ==
    \/ \E g \in Executors : ExecLoadNext(g)
    \/ ClientStart
    \/ ClientReceive
    \/ ClientDebug(DebuggerCmdContinue)
    \/ \E line \in 1 .. numLines :
          client.spawned = 0 /\ SetLineBreakpoint(line, TRUE)
    \/ ClientRestart
    \/ ClientDrain
    \/ ClientRestartRun

SpecRestartVM == InitRestart /\ [][NextRestartVM]_vars

(* The client is inside restartVM after its Run, or has returned from it   *)
(* and called nothing since.                                               *)
Restarted ==
    /\ client.spawned > 1
    /\ client.want.kind = "init"
    /\ client.pc \in {"restart_recv", "idle"}

(* A step taken while the client is inside restartVM, from its call of     *)
(* Stop to the receive of the initial snapshot.                            *)
DuringRestart ==
    \/ ClientRestart
    \/ client.pc \in {"restart_drain", "restart_new", "restart_recv"}

(* Goroutine g has taken a command and not yet handed over its answer. *)
Handling(g) ==
    \/ exec[g].pc \in {"stepnext", "cont"}
    \/ exec[g].pc = "send" /\ exec[g].snap.kind = "cmd"

(* No executor is in the middle of a command, and what restartVM received  *)
(* is the initial snapshot of the executor it started.                     *)
Quiescent ==
    /\ \A g \in Executors : ~Handling(g)
    /\ client.pc = "idle" => Tag(client.got) = client.want

FreshState ==
    /\ currentState.PC = 0
    /\ currentState.Stack = << >>
    /\ currentState.Locals = << >>
    /\ currentState.CallStack = << >>
    /\ history = << >>

LeftOperand == Second(lastInstr.pre.Stack)
RightOperand == Top(lastInstr.pre.Stack)

(* The instruction executed last was op on two Int operands and returned   *)
(* nil.                                                                    *)
AppliedToInts(op) ==
    /\ lastInstr.op = op
    /\ lastInstr.res = "ok"
    /\ Len(lastInstr.pre.Stack) >= 2
    /\ BothInt(LeftOperand, RightOperand)

(* C24: on Int operands SUB leaves x - y on the stack, DIV the quotient of *)
(* x by y and MOD the remainder of x by y, where x is the left operand     *)
(* (pushed first) and y the right operand (top of the stack).              *)
C24_LeftOperandIsMinuendAndDividend ==
    /\ AppliedToInts(InstrSub) =>
          Top(lastInstr.post.Stack) = IntValue(LeftOperand.v - RightOperand.v)
    /\ (AppliedToInts(InstrDiv) /\ RightOperand.v # 0) =>
          Top(lastInstr.post.Stack) = IntValue(GoDiv(LeftOperand.v, RightOperand.v))
    /\ (AppliedToInts(InstrMod) /\ RightOperand.v # 0) =>
          Top(lastInstr.post.Stack) = IntValue(GoMod(LeftOperand.v, RightOperand.v))

(* C25: on Int operands with x pushed before y, LT pushes 1 iff x < y, GT  *)
(* iff x > y, LTE iff x <= y and GTE iff x >= y, and 0 otherwise.          *)
C25_ComparisonsCompareLeftWithRight ==
    /\ AppliedToInts(InstrLt) =>
          Top(lastInstr.post.Stack) = Bool(LeftOperand.v < RightOperand.v)
    /\ AppliedToInts(InstrGt) =>
          Top(lastInstr.post.Stack) = Bool(LeftOperand.v > RightOperand.v)
    /\ AppliedToInts(InstrLte) =>
          Top(lastInstr.post.Stack) = Bool(LeftOperand.v <= RightOperand.v)
    /\ AppliedToInts(InstrGte) =>
          Top(lastInstr.post.Stack) = Bool(LeftOperand.v >= RightOperand.v)

(* The part of C25 about LT alone. *)
C25_LtComparesLeftWithRight ==
    AppliedToInts(InstrLt) =>
        Top(lastInstr.post.Stack) = Bool(LeftOperand.v < RightOperand.v)

(* The client is blocked in `vm.debugChan <- cmd` while every goroutine    *)
(* that Run started and that has not ended is blocked in a send on         *)
(* stateChan: no goroutine is left to receive the command, and nothing     *)
(* receives the snapshot.                                                  *)
CommandMeetsSnapshot ==
    /\ client.pc = "dbg_send"
    /\ Offering # {}
    /\ \A g \in Executors : exec[g].pc \in {"send", "done", "none"}

(* C26: every call of Debug returns: the system never reaches a state in   *)
(* which the issuer is blocked sending the command while the executor is   *)
(* blocked sending a snapshot, whether the command is issued before the    *)
(* first Run, after a Pause, after a runtime error or after the program    *)
(* has finished.                                                           *)
C26_DebugNeverBlocks == ~CommandMeetsSnapshot

(* The four cases of C26 one by one: the command is the first call on the  *)
(* VM, follows a Pause, follows a runtime error, follows HALT.             *)
C26_BlocksBeforeFirstRun ==
    ~(CommandMeetsSnapshot /\ client.n = 1 /\ client.spawned = 1)
C26_BlocksAfterPause ==
    ~(CommandMeetsSnapshot /\ client.got.verb = DebuggerCmdPause)
C26_BlocksAfterError ==
    ~(CommandMeetsSnapshot /\ lastInstr.res = "err")
C26_BlocksAfterHalt ==
    ~(CommandMeetsSnapshot /\ lastInstr.op = InstrHalt)

(***************************************************************************)
(* Bytecode handed to NewVM directly, in which HALT is not the last byte:  *)
(*   PUSH 1; HALT; PUSH 2; STORE 0                                         *)
(* without a source map, and with the instructions after HALT mapped to    *)
(* line 2.  The session is the one of Spec.                                *)
(***************************************************************************)
HaltEarlyProgram(smap, lines) ==
    [code |-> << InstrPush, 1, InstrHalt, InstrPush, 2, InstrStore, 0 >>,
     sourceMap |-> smap,
     strings |-> << >>,
     functions |-> {0},
     lines |-> lines]

SpecHaltEarly ==
    /\ InitWith({HaltEarlyProgram(NoMap, 1), HaltEarlyProgram(5 :> 2, 2)})
    /\ [][Next]_vars

(* C27: once the running flag is cleared, the executor executes no further *)
(* instruction in the batch: every instruction that a StepNext or a        *)
(* Continue executes is executed with running set, whatever the bytecode.  *)
C27_NoInstructionAfterRunningCleared ==
    [][\A g \in Executors : ExecutesInstruction(g) => running]_vars

(* The part of C27 about the Continue batch. *)
C27_ContinueStopsWhenCleared ==
    [][\A g \in Executors : ContinueExecutes(g) => running]_vars

(* The goroutines blocked in `cmd := <-vm.debugChan`. *)
Receivers == {g \in Executors : exec[g].pc = "recv"}

(* C28: at most one executor can receive from the command channel, and     *)
(* every command is handled by the executor that the most recent Run       *)
(* started, also after Stop and after restartVM.                           *)
C28_OneReceiverTheLatestRun ==
    /\ Cardinality(Receivers) <= 1
    /\ \A g \in Executors : Handling(g) => g = client.spawned

(* The two parts of C28 one by one. *)
C28_AtMostOneReceiver == Cardinality(Receivers) <= 1
C28_HandledByLatestRun ==
    \A g \in Executors : Handling(g) => g = client.spawned

(* Goroutine g takes a StepBack right after it answered a StepNext that    *)
(* executed at least one instruction: the StepNext was the command before, *)
(* and history has grown since g took it.                                  *)
StepBackAfterStepNext(g) ==
    /\ StepBackHandled(g)
    /\ exec[g].verb = DebuggerCmdStepNext
    /\ exec[g].cmd = client.n - 1
    /\ Len(history) > exec[g].preHist

(* The state that held before that StepNext: the first snapshot that       *)
(* stepToNextLine appended.                                                *)
BeforeStepNext(g) == history[exec[g].preHist + 1]

SameButLine(s, t) ==
    /\ s.PC = t.PC
    /\ s.Stack = t.Stack
    /\ s.Locals = t.Locals
    /\ s.CallStack = t.CallStack
    /\ s.Strings = t.Strings

(* C29: StepNext followed immediately by StepBack restores the state that  *)
(* held before the StepNext (pc, stack, locals, call stack and strings),   *)
(* from every state in which the StepNext executed at least one            *)
(* instruction, the initial state of a program whose first statement is on *)
(* line 1 included.                                                        *)
C29_StepBackUndoesStepNext ==
    [][\A g \in Executors :
          StepBackAfterStepNext(g) =>
              SameButLine(currentState', BeforeStepNext(g))]_vars

(* The same for a StepNext issued at a pc that has a source-map entry.     *)
C29_FromMappedPc ==
    [][\A g \in Executors :
          (StepBackAfterStepNext(g) /\ exec[g].prePC \in DOMAIN sourceMap) =>
              SameButLine(currentState', BeforeStepNext(g))]_vars

(* Goroutine g leaves the Continue loop and publishes, for a Continue it   *)
(* took at a pc inside the code whose line has an enabled breakpoint.      *)
ContinueFromBreakpointStops(g) ==
    /\ ExecContinue(g)
    /\ exec'[g].pc = "send"
    /\ exec[g].prePC < Len(bytecode)
    /\ MapGet(sourceMap, exec[g].prePC) \in lineBreakpoints

(* C30: a Continue issued while the VM is stopped at a pc whose line has   *)
(* an enabled breakpoint executes at least one instruction before it stops *)
(* again: when it publishes, history has grown since the command was       *)
(* taken, or the instruction that ends the batch with an error has just    *)
(* been executed.                                                          *)
C30_ContinueLeavesBreakpoint ==
    [][\A g \in Executors :
          ContinueFromBreakpointStops(g) =>
              \/ Len(history') > exec[g].preHist
              \/ lastInstr' # lastInstr]_vars

(***************************************************************************)
(* Claims C31..C37.                                                        *)
(***************************************************************************)

(* The one-byte operand of the instruction executed last. *)
OperandOfLast == ByteAt(bytecode, lastInstr.pre.PC + 1)

(* The instruction executed last was STORE on a non-empty stack. *)
StoredOnNonEmptyStack ==
    /\ lastInstr.op = InstrStore
    /\ lastInstr.pre.PC + 1 < Len(bytecode)
    /\ Len(lastInstr.pre.Stack) > 0

(* C31: STORE idx on a non-empty stack completes without fault for every   *)
(* index the compiler emits, pops the top value v and leaves               *)
(* locals[idx] = v, with one slot appended when idx >= len(locals).        *)
C31_StoreCompletesForCompiledIndices ==
    StoredOnNonEmptyStack =>
        /\ lastInstr.res = "ok"
        /\ lastInstr.post.Stack = DropLast(lastInstr.pre.Stack, 1)
        /\ OperandOfLast < Len(lastInstr.post.Locals)
        /\ lastInstr.post.Locals[OperandOfLast + 1] = Top(lastInstr.pre.Stack)
        /\ Len(lastInstr.post.Locals) =
              IF OperandOfLast >= Len(lastInstr.pre.Locals)
              THEN Len(lastInstr.pre.Locals) + 1
              ELSE Len(lastInstr.pre.Locals)

(* The same for a STORE whose index is at most len(locals). *)
C31_StoreOfNextSlot ==
    (StoredOnNonEmptyStack /\ OperandOfLast <= Len(lastInstr.pre.Locals)) =>
        /\ lastInstr.res = "ok"
        /\ lastInstr.post.Stack = DropLast(lastInstr.pre.Stack, 1)
        /\ lastInstr.post.Locals[OperandOfLast + 1] = Top(lastInstr.pre.Stack)

(***************************************************************************)
(* Bytecode handed to NewVM directly that uses LOAD or POP with a local    *)
(* index, after one STORE or after none:                                   *)
(*   [PUSH 7; STORE 0;] PUSH 8; <op> idx; HALT                             *)
(* and, on an empty stack,  <op> idx; HALT.  The session is the one of     *)
(* Spec.                                                                   *)
(***************************************************************************)
LocalsProgram(stored, pushed, op, idx) ==
    [code |-> ((IF stored THEN << InstrPush, 7, InstrStore, 0 >> ELSE << >>)
                 \o (IF pushed THEN << InstrPush, 8 >> ELSE << >>))
                 \o << op, idx, InstrHalt >>,
     sourceMap |-> NoMap,
     strings |-> << >>,
     functions |-> {0},
     lines |-> 1]

SpecLocals ==
    /\ InitWith({LocalsProgram(stored, pushed, op, idx) :
                    stored \in BOOLEAN, pushed \in BOOLEAN,
                    op \in {InstrLoad, InstrPop}, idx \in 0 .. 2})
    /\ [][Next]_vars

(* The instruction executed last was LOAD or POP with a local index that   *)
(* is not below len(locals).                                               *)
LocalIndexOutOfRange ==
    /\ lastInstr.op \in {InstrLoad, InstrPop}
    /\ lastInstr.pre.PC + 1 < Len(bytecode)
    /\ OperandOfLast >= Len(lastInstr.pre.Locals)

(* C32: LOAD or POP with a local index >= len(locals) is a runtime error   *)
(* that leaves the stack and the locals unchanged, and no instruction      *)
(* other than STORE changes len(locals).                                   *)
C32_LoadAndPopNeedAnAssignedLocal ==
    /\ LocalIndexOutOfRange =>
          /\ lastInstr.res = "err"
          /\ lastInstr.post.Stack = lastInstr.pre.Stack
          /\ lastInstr.post.Locals = lastInstr.pre.Locals
    /\ (lastInstr.op # NoInstr.op /\ lastInstr.op # InstrStore) =>
          Len(lastInstr.post.Locals) = Len(lastInstr.pre.Locals)

(* POP was executed with a value on the stack and an index equal to        *)
(* len(locals), after one assignment.                                      *)
C32_Witness ==
    /\ LocalIndexOutOfRange
    /\ lastInstr.op = InstrPop
    /\ lastInstr.res = "err"
    /\ lastInstr.pre.Stack # << >>
    /\ OperandOfLast = Len(lastInstr.pre.Locals)
    /\ Len(lastInstr.pre.Locals) = 1

(* The case of C32 in compiled code: a variable read before any assignment *)
(* to it has executed.                                                     *)
C32_ReadBeforeAssignment ==
    (lastInstr.op = InstrLoad /\ OperandOfLast >= Len(lastInstr.pre.Locals)) =>
        /\ lastInstr.res = "err"
        /\ lastInstr.post.Stack = lastInstr.pre.Stack
        /\ lastInstr.post.Locals = lastInstr.pre.Locals

(* The second part of C32 on the programs of the debugging session and on  *)
(* compiled programs, which execute every other instruction.               *)
C32_OnlyStoreGrowsLocals ==
    (lastInstr.op # NoInstr.op /\ lastInstr.op # InstrStore) =>
        Len(lastInstr.post.Locals) = Len(lastInstr.pre.Locals)

(* ADD was executed on two string references, left pushed first.          *)
AddOfStrings ==
    /\ lastInstr.op = InstrAdd
    /\ Len(lastInstr.pre.Stack) >= 2
    /\ BothStr(Second(lastInstr.pre.Stack), Top(lastInstr.pre.Stack))
    /\ StrOk(lastInstr.pre, Second(lastInstr.pre.Stack))
    /\ StrOk(lastInstr.pre, Top(lastInstr.pre.Stack))

(* C33: during forward execution the strings table only grows at its end: *)
(* every index valid before an instruction refers to the same string after *)
(* it, and ADD on two string references appends exactly one entry, the     *)
(* left string followed by the right string, and pushes the index of that  *)
(* new entry.                                                              *)
C33_StringsOnlyGrowAtTheEnd ==
    /\ lastInstr.op # NoInstr.op =>
          /\ Len(lastInstr.pre.Strings) <= Len(lastInstr.post.Strings)
          /\ \A i \in 1 .. Len(lastInstr.pre.Strings) :
                lastInstr.post.Strings[i] = lastInstr.pre.Strings[i]
    /\ AddOfStrings =>
          /\ lastInstr.res = "ok"
          /\ lastInstr.post.Strings =
                Append(lastInstr.pre.Strings,
                       StrOf(lastInstr.pre, Second(lastInstr.pre.Stack))
                         \o StrOf(lastInstr.pre, Top(lastInstr.pre.Stack)))
          /\ Top(lastInstr.post.Stack) = StringValue(Len(lastInstr.pre.Strings))
          /\ Len(lastInstr.post.Stack) = Len(lastInstr.pre.Stack) - 1

(* "a" + "b" was executed and appended ab after the two literals.          *)
C33_Witness ==
    /\ AddOfStrings
    /\ lastInstr.pre.Strings = << << "a" >>, << "b" >> >>
    /\ lastInstr.post.Strings = << << "a" >>, << "b" >>, << "a", "b" >> >>
    /\ Top(lastInstr.post.Stack) = StringValue(2)

(* The same under StepNext and StepBack commands: forward execution keeps  *)
(* every earlier entry of the table.                                       *)
C33_StepsKeepEarlierStrings ==
    lastInstr.op # NoInstr.op =>
        /\ Len(lastInstr.pre.Strings) <= Len(lastInstr.post.Strings)
        /\ \A i \in 1 .. Len(lastInstr.pre.Strings) :
              lastInstr.post.Strings[i] = lastInstr.pre.Strings[i]

(* The program consists of calls to names that are not builtins.           *)
CallsOnlyUndefinedNames ==
    \A i \in DOMAIN source.text :
        /\ source.text[i].kind = "Call"
        /\ source.text[i].Name \notin DOMAIN builtinFunctions

(* C34: a call to a name that is not a builtin is never compiled to a      *)
(* builtin's function index: the indices allocated by getFuncIdx are       *)
(* disjoint from the builtin indices (print = 0, add = 1), so calling an   *)
(* undefined function never invokes print.                                 *)
C34_UndefinedCallNeverInvokesPrint ==
    /\ \A name \in DOMAIN compiler.funcs :
          compiler.funcs[name] \notin
             {builtinFunctions[b] : b \in DOMAIN builtinFunctions}
    /\ CallsOnlyUndefinedNames => output = << >>

(* The part of C34 that the code has: a builtin name resolves to its fixed *)
(* index and is never entered among the user functions.                    *)
C34_BuiltinNamesKeepTheirIndex ==
    \A name \in DOMAIN compiler.funcs : name \notin DOMAIN builtinFunctions

(* The last part of C34 alone: a program of undefined calls prints         *)
(* nothing.                                                                *)
C34_UndefinedCallPrintsNothing == CallsOnlyUndefinedNames => output = << >>

(* Goroutine g takes a StepBack while history is empty.                    *)
StepBackOnEmptyHistory(g) ==
    /\ client.cmd = DebuggerCmdStepBack
    /\ Len(history) = 0
    /\ ExecRecv(g)

(* C35: StepBack issued while history is empty publishes the current state *)
(* unchanged (same pc, stack, locals, strings), leaves history empty, is   *)
(* not an error, and leaves the VM able to accept further commands: the    *)
(* goroutine sends the snapshot and goes back to the head of its loop with *)
(* running as it was.                                                      *)
C35_StepBackOnEmptyHistoryIsNoOp ==
    [][\A g \in Executors :
          StepBackOnEmptyHistory(g) =>
              /\ currentState' = currentState
              /\ history' = << >>
              /\ running' = running
              /\ crashed' = crashed
              /\ exec'[g].pc = "send"
              /\ exec'[g].snap.kind = "cmd"
              /\ exec'[g].snap.state = currentState
              /\ exec'[g].after = "loop"]_vars

(* A goroutine that answered a StepBack taken on an empty history waits    *)
(* for the next command, which the client is sending; nothing has been     *)
(* executed or restored.                                                   *)
C35_Witness ==
    \E g \in Executors :
        /\ exec[g].verb = DebuggerCmdStepBack
        /\ exec[g].preHist = 0
        /\ exec[g].pc = "recv"
        /\ client.pc = "dbg_send"
        /\ client.got.kind = "cmd"
        /\ client.got.verb = DebuggerCmdStepBack
        /\ client.got.state = currentState
        /\ history = << >>
        /\ running

(* The program is  val r = n  for the integer literal n.                   *)
LiteralProgram(n) == source.text = ExprSource(Num(n))

(* C36: an integer literal n compiles to PUSH with operand n mod 256 and   *)
(* executing it pushes Int(n mod 256); literals 0 to 255 are pushed with   *)
(* their exact value.                                                      *)
C36_LiteralIsPushedModulo256 ==
    \A n \in {m \in 0 .. 600 : Len(source.text) = 1 /\ Len(source.text[1].Expr) = 1} :
        LiteralProgram(n) =>
            /\ bytecode # << >> =>
                  bytecode = << InstrPush, n % 256, InstrStore, 0, InstrHalt >>
            /\ lastInstr.op = InstrPush =>
                  /\ lastInstr.res = "ok"
                  /\ lastInstr.post.Stack = << IntValue(n % 256) >>
                  /\ n <= 255 => lastInstr.post.Stack = << IntValue(n) >>

(* val r = 300 has executed its PUSH, which pushed 44.                     *)
C36_Witness ==
    /\ LiteralProgram(300)
    /\ lastInstr.op = InstrPush
    /\ ByteAt(bytecode, 1) = 44
    /\ lastInstr.post.Stack = << IntValue(44) >>

(* C37: between any two emissions of the compiler, also after the two      *)
(* reserved jump-operand bytes are appended and after they are patched,    *)
(* currentPos = len(code).                                                 *)
C37_CurrentPosIsCodeLength ==
    /\ compiler.currentPos = Len(compiler.code)
    /\ compiler.inSync

(* An if statement and a while statement have been compiled: operands were *)
(* reserved and patched, and a backward jump was appended.                 *)
C37_Witness ==
    /\ compiler.currentPos = Len(compiler.code)
    /\ compiler.currentPos > 0
    /\ compiler.nextLabel >= 4
    /\ compiler.reserved = {}
    /\ \E i \in DOMAIN source.text : source.text[i].kind = "WhileStmt"

====
